---- MODULE Spec2Model ----
(***************************************************************************)
(* Model of the notification service: the Notification entity              *)
(* (domain/entities/notification.py), the value objects, the domain        *)
(* service (domain/services/notification_service.py), the FCM gateway      *)
(* client (infrastructure/fcm/fcm_client.py), the store client             *)
(* (infrastructure/valkey/valkey_client.py) and the handlers of            *)
(* presentation/api/v1/notifications.py (send, topic, batch, status).      *)
(*                                                                         *)
(* Eight specifications share the variables:                               *)
(*   SpecEntity    sequences of mark_sent / mark_failed calls on an entity *)
(*   Spec          one /send or /topic request through its suspension      *)
(*                 points                                                  *)
(*   SpecBatch     one /batch request through its suspension points        *)
(*   SpecDispatch  one request to any of the three handlers                *)
(*   SpecDomain    one call of an entity method, a domain service method   *)
(*                 or a value object constructor                           *)
(*   SpecStatus    one dispatch and one status query, interleaved          *)
(*   SpecStore     operations on one ValkeyClient, one at a time           *)
(*   SpecConcurrent  NumTasks /send requests interleaved at their awaits   *)
(***************************************************************************)
EXTENDS Integers, Sequences, FiniteSets, TLC

\* ------------------------------------------------------------------ bounds
\* longest sequence of mark_sent / mark_failed calls explored by SpecEntity
MaxCalls == 3
\* largest `count` argument passed to mark_sent / mark_failed in SpecEntity
MaxStep == 2
\* longest device token list of a /send request
MaxTokens == 3
\* largest number of items of a /batch request
MaxBatch == 2

\* ------------------------------------------------------------- vocabulary
\* Python's None (Optional[...] fields, dict.get of a missing key)
None == "None"
\* error strings str(e) of the exceptions the gateway SDK can raise
ErrorMessages == {"E1", "E2"}
\* message ids the gateway SDK returns on success
MessageIds == {"msg-1"}
\* an Optional[datetime]: <<>> is None, <<t>> the instant t seconds after the
\* process started (all datetimes are timezone-aware UTC)
NoTime == <<>>
\* readings of datetime.now(timezone.utc): half a minute and six minutes
\* forty seconds after the process started
Clock == {30, 400}
\* a dict is the sequence of its items; the empty dict
EmptyDict == <<>>

\* the /send requests in flight at the same time in SpecConcurrent
NumTasks == 2
Tasks == 1..NumTasks
\* a coroutine that has not started
IdleTask == [pc |-> "idle"]
\* ValkeyClient.__init__
NewValkeyClient == [redis |-> None, connected |-> FALSE]
\* no status query has been made
IdleQuery == [pc |-> "idle"]

VARIABLES
    notification,      \* the Notification entity of the running dispatch
    calls,             \* SpecEntity, SpecDomain: the calls made so far (history)
    pc,                \* position of the handler coroutine
    request,           \* the request body as received (SpecDomain: the
                       \* arguments of the call)
    result,            \* `result`: the dict the gateway client returned
    sent_count,        \* handler local `sent_count`
    failed_count,      \* handler local `failed_count` (batch: also the rollup)
    status,            \* handler local `status`
    results,           \* handler local `results`
    response,          \* what the caller is told
    store,             \* successful store SET commands, in order
    events,            \* successfully published events, in order
    log,               \* the I/O and entity steps of the dispatch, in order
    idx,               \* batch: index of the item being processed
    successful_count,  \* batch local `successful_count`
    notification_status, \* handler local `notification_status`
    outcomes,          \* batch: how each finished item ended (history)
    now,               \* the wall clock, in seconds since the process started
    tasks,             \* SpecConcurrent: the locals of each /send coroutine
    client,            \* SpecStore: the fields of one ValkeyClient
    query              \* SpecStatus: the status query coroutine

vars == <<notification, calls, pc, request, result, sent_count, failed_count,
          status, results, response, store, events, log, idx,
          successful_count, notification_status, outcomes, now, tasks,
          client, query>>

\* the variables of the specifications that run beside one dispatch
sideVars == <<tasks, client, query>>

\* the variables of one dispatch, its entity and the recorded calls
handlerVars == <<notification, calls, pc, request, result, sent_count,
                 failed_count, status, results, response, store, events,
                 log, idx, successful_count, notification_status, outcomes,
                 now>>

dispatchVars == <<pc, request, result, sent_count, failed_count, status,
                  results, response, store, events, log, idx,
                  successful_count, notification_status, outcomes, now,
                  sideVars>>

\* ------------------------------------------------------ Notification entity
\* Notification(...) right after construction. device_tokens is the sequence
\* of token values of the DeviceTokenList, <<>> standing for None (a
\* DeviceTokenList is never empty); topic is the topic name or None. The
\* fields not passed take their Field(...) defaults.
NewNotification(id, notification_type, title, body, device_tokens, topic) ==
    [id |-> id, notification_type |-> notification_type,
     title |-> title, body |-> body, data |-> EmptyDict,
     device_tokens |-> device_tokens, topic |-> topic,
     scheduled_at |-> NoTime, expires_at |-> NoTime,
     status |-> "pending", sent_count |-> 0, failed_count |-> 0,
     error_message |-> None,
     priority |-> "normal", collapse_key |-> None, ttl |-> <<>>]

\* the handler has not constructed an entity (yet)
NoNotification ==
    [NewNotification(<<"none", 0>>, None, None, None, <<>>, None)
        EXCEPT !.status = "absent"]

\* mutant: overwrites the status whatever it was
mark_sent_overwrite(n, count) ==
    [n EXCEPT !.sent_count = @ + count, !.status = "sent"]

\* mutant: stores the count instead of adding it
mark_sent_assign(n, count) ==
    [n EXCEPT !.sent_count = count,
              !.status = IF @ = "pending" THEN "sent" ELSE @]

\* Notification.mark_sent
mark_sent(n, count) ==
    [n EXCEPT !.sent_count = @ + count,
              !.status = IF @ = "pending" THEN "sent" ELSE @]

\* Notification.mark_failed
mark_failed(n, error_message, count) ==
    [n EXCEPT !.failed_count = @ + count,
              !.error_message = error_message,
              !.status = "failed"]

\* --------------------------------------------------------------- SpecEntity
InitCommon ==
    /\ calls = <<>>
    /\ pc = "idle"
    /\ request = [kind |-> "none"]
    /\ result = [success |-> FALSE]
    /\ sent_count = 0
    /\ failed_count = 0
    /\ status = None
    /\ results = <<>>
    /\ response = [kind |-> "none"]
    /\ store = <<>>
    /\ events = <<>>
    /\ log = <<>>
    /\ idx = 0
    /\ successful_count = 0
    /\ notification_status = [notification_id |-> <<"none", 0>>]
    /\ outcomes = <<>>
    /\ now \in Clock
    /\ tasks = [t \in Tasks |-> IdleTask]
    /\ client = NewValkeyClient
    /\ query = IdleQuery

InitEntity ==
    /\ notification = NewNotification(<<"entity", 0>>, "alert", "Hello",
                                       "World", <<"a">>, None)
    /\ InitCommon

MarkSent(count) ==
    /\ Len(calls) < MaxCalls
    /\ notification' = mark_sent(notification, count)
    /\ calls' = Append(calls, [op |-> "mark_sent", count |-> count,
                               error_message |-> None])
    /\ UNCHANGED dispatchVars

MarkFailed(error_message, count) ==
    /\ Len(calls) < MaxCalls
    /\ notification' = mark_failed(notification, error_message, count)
    /\ calls' = Append(calls, [op |-> "mark_failed", count |-> count,
                               error_message |-> error_message])
    /\ UNCHANGED dispatchVars

NextEntity ==
    \/ \E count \in 0..MaxStep : MarkSent(count)
    \/ \E e \in ErrorMessages, count \in 0..MaxStep : MarkFailed(e, count)

SpecEntity == InitEntity /\ [][NextEntity]_vars

\* ---- history helpers for the entity claims
RECURSIVE SumCounts(_, _)
SumCounts(cs, op) ==
    IF cs = <<>> THEN 0
    ELSE (IF cs[Len(cs)].op = op THEN cs[Len(cs)].count ELSE 0)
         + SumCounts(SubSeq(cs, 1, Len(cs) - 1), op)

LastCall == calls[Len(calls)]

\* C1: over any sequence of mark_sent / mark_failed calls from 'pending' the
\* status only moves pending -> sent -> failed or pending -> failed; mark_sent
\* changes the status only when it is 'pending' (to 'sent'); once 'failed',
\* no later call changes it.
C1_StatusTransitions ==
    [][ /\ notification.status = "failed" => notification'.status = "failed"
        /\ notification.status = "sent"
              => notification'.status \in {"sent", "failed"}
        /\ notification.status = "pending"
              => notification'.status \in {"pending", "sent", "failed"}
        /\ (calls' # calls /\ calls'[Len(calls')].op = "mark_sent"
              /\ notification'.status # notification.status)
              => (notification.status = "pending"
                    /\ notification'.status = "sent")
      ]_vars

\* a mark_sent call made on an entity that had already failed
C1_Witness ==
    /\ Len(calls) >= 2
    /\ LastCall.op = "mark_sent"
    /\ calls[Len(calls) - 1].op = "mark_failed"
    /\ notification.status = "failed"

\* C2: mark_sent(n) adds exactly n to sent_count and leaves failed_count and
\* error_message alone; mark_failed(msg, n) adds exactly n to failed_count,
\* sets error_message to msg and status to 'failed' whatever it was, and
\* leaves sent_count alone; calls accumulate and no counter decreases.
C2_Step ==
    /\ (calls' # calls /\ calls'[Len(calls')].op = "mark_sent") =>
          /\ notification'.sent_count
                = notification.sent_count + calls'[Len(calls')].count
          /\ notification'.failed_count = notification.failed_count
          /\ notification'.error_message = notification.error_message
    /\ (calls' # calls /\ calls'[Len(calls')].op = "mark_failed") =>
          /\ notification'.failed_count
                = notification.failed_count + calls'[Len(calls')].count
          /\ notification'.error_message = calls'[Len(calls')].error_message
          /\ notification'.status = "failed"
          /\ notification'.sent_count = notification.sent_count
    /\ notification'.sent_count >= notification.sent_count
    /\ notification'.failed_count >= notification.failed_count

C2_Accumulates ==
    /\ notification.sent_count = SumCounts(calls, "mark_sent")
    /\ notification.failed_count = SumCounts(calls, "mark_failed")

C2_CountersFrame == [][C2_Step]_vars /\ []C2_Accumulates

\* two mark_sent(2) calls in a row have added 4
C2_Witness ==
    /\ Len(calls) = 2
    /\ calls[1] = [op |-> "mark_sent", count |-> 2, error_message |-> None]
    /\ calls[2] = calls[1]
    /\ notification.sent_count = 4

\* ------------------------------------------------------------ request DTOs
\* device token values a client may send; TokenLen is len(value)
TokenValues == {"a", "b", "c", "d", "s"}
TokenLen(t) == IF t = "s" THEN 31 ELSE 152

\* topic names a client may send; the second has characters outside the
\* pattern ^[a-zA-Z0-9\-_\.~%]+$
TopicNames == {"news-2024.v1", "news feed!"}
TopicNameMatches(t) == t = "news-2024.v1"

NotificationTypes == {"alert", "silent"}
Titles == {None, "Hello"}
Bodies == {None, "World"}
\* scheduled_at: Optional[datetime] = Field(datetime.now(timezone.utc)): the
\* default is the instant the module was imported, the process start
scheduled_at_default == <<0>>
\* scheduled_at of a request body: null, or left out
ScheduledAts == {NoTime, scheduled_at_default}

\* len(set(values)) for a sequence of values
Distinct(seq) == Cardinality({seq[k] : k \in DOMAIN seq})

\* all sequences over S of length 0..n
SeqsUpTo(S, n) == UNION {[1..k -> S] : k \in 0..n}

\* SendNotificationRequest.validate_device_tokens: the request body parses
SendRequestParses(device_tokens) ==
    /\ device_tokens # <<>>
    /\ ~(Len(device_tokens) > 500)
    /\ Len(device_tokens) = Distinct(device_tokens)

\* TopicNotificationRequest.validate_topic: the request body parses
TopicRequestParses(topic) ==
    /\ topic # ""
    /\ TopicNameMatches(topic)

\* the device token lists of the /send requests: 0..MaxTokens distinct
\* well-formed tokens, a token that is too short (alone, and after a
\* well-formed one), a repeated token
DistinctTokens == <<"a", "b", "c", "d">>
SendTokenLists ==
    {[k \in 1..n |-> DistinctTokens[k]] :
        n \in {m \in 0..MaxTokens : m <= Len(DistinctTokens)}}
    \cup {<<"s">>, <<"a", "s">>, <<"a", "a">>}

SendRequests ==
    [kind : {"send"}, device_tokens : SendTokenLists,
     notification_type : NotificationTypes, title : Titles, body : Bodies,
     scheduled_at : ScheduledAts]

TopicRequests ==
    [kind : {"topic"}, topic : TopicNames,
     notification_type : NotificationTypes, title : Titles, body : Bodies,
     scheduled_at : ScheduledAts]

\* ------------------------------------------------------------ value objects
\* DeviceToken.validate_token accepts the value
DeviceTokenValid(t) == ~(TokenLen(t) < 32)

\* Settings.max_tokens_per_request
max_tokens_per_request == 500

\* the `values` dict handed to the validator of `field`: the fields declared,
\* and so validated, before it
ValuesBefore(fields, field, kwargs) ==
    LET pos == CHOOSE k \in DOMAIN fields : fields[k] = field
    IN  [f \in {fields[k] : k \in 1..(pos - 1)} |-> kwargs[f]]

\* the fields of DeviceTokenList, in declaration order
DeviceTokenListFields == <<"tokens", "max_tokens">>

\* DeviceTokenList.validate_tokens: the ValueError it raises, or None
validate_tokens(v, values) ==
    LET max_tokens == IF "max_tokens" \in DOMAIN values
                      THEN values.max_tokens ELSE 500
    IN  IF v = <<>> THEN "At least one device token is required"
        ELSE IF Len(v) > max_tokens
        THEN "Maximum max_tokens tokens allowed per request"
        ELSE IF Len(v) # Distinct(v)
        THEN "Duplicate device tokens are not allowed"
        ELSE None

\* DeviceTokenList(tokens=tokens, max_tokens=max_tokens): the ValueError the
\* construction raises, or None
DeviceTokenList(tokens, max_tokens) ==
    validate_tokens(tokens,
        ValuesBefore(DeviceTokenListFields, "tokens",
                     [tokens |-> tokens, max_tokens |-> max_tokens]))

\* the handlers' DeviceTokenList(tokens=..., max_tokens=
\* settings.max_tokens_per_request) is constructed
DeviceTokenListValid(tokens) ==
    DeviceTokenList(tokens, max_tokens_per_request) = None

\* Topic.validate_topic_name accepts the name
TopicValid(name) == name # "" /\ TopicNameMatches(name)

\* TopicSubscription.validate_device_tokens and
\* TopicSubscriptionRequest.validate_device_tokens (the same code): the
\* ValueError raised, or None
subscription_validate_device_tokens(v) ==
    IF v = <<>> THEN "At least one device token is required"
    ELSE IF Len(v) > 1000
    THEN "Maximum 1000 device tokens per topic subscription"
    ELSE IF Distinct(v) # Len(v)
    THEN "Duplicate device tokens are not allowed"
    ELSE None

\* list(set(v)): the lists it can produce (the order is the set's)
unique_tokens(v) ==
    LET values == {v[k] : k \in DOMAIN v}
    IN  {u \in [1..Cardinality(values) -> values] :
            {u[k] : k \in DOMAIN u} = values}

\* NotificationType.get_template_config
get_template_config(notification_type) ==
    IF notification_type = "alert"
    THEN [requires_title |-> TRUE, requires_body |-> TRUE,
          supports_data |-> TRUE]
    ELSE IF notification_type \in {"silent", "custom"}
    THEN [requires_title |-> FALSE, requires_body |-> FALSE,
          supports_data |-> TRUE]
    ELSE [requires_title |-> TRUE, requires_body |-> TRUE,
          supports_data |-> TRUE]

\* `not v` for an Optional[str]
Falsy(v) == v \in {None, ""}

\* mutant: stops at the first violated rule
validate_first_only(n, now_) ==
    IF n.device_tokens = <<>> /\ n.topic = None
    THEN <<"must target either device tokens or a topic">>
    ELSE IF n.device_tokens # <<>> /\ n.topic # None
    THEN <<"cannot target both device tokens and topic">>
    ELSE IF get_template_config(n.notification_type).requires_title
               /\ Falsy(n.title)
    THEN <<"requires a title">>
    ELSE IF get_template_config(n.notification_type).requires_body
               /\ Falsy(n.body)
    THEN <<"requires a body">>
    ELSE IF n.scheduled_at # NoTime
               /\ n.scheduled_at[1] < (now_ - (now_ % 60)) - 300
    THEN <<"Scheduled time cannot be in the past (with 5-minute buffer)">>
    ELSE IF n.expires_at # NoTime /\ n.expires_at[1] < now_
    THEN <<"Expiration time cannot be in the past">>
    ELSE <<>>

\* Notification.validate, with current_time = now_: the messages of the
\* violated rules, in the order they are checked
validate(n, now_) ==
    LET template_config == get_template_config(n.notification_type)
        current_time == now_
        buffer_time == (current_time - (current_time % 60)) - 300
    IN  (IF n.device_tokens = <<>> /\ n.topic = None
         THEN <<"must target either device tokens or a topic">> ELSE <<>>)
        \o (IF n.device_tokens # <<>> /\ n.topic # None
            THEN <<"cannot target both device tokens and topic">> ELSE <<>>)
        \o (IF template_config.requires_title /\ Falsy(n.title)
            THEN <<"requires a title">> ELSE <<>>)
        \o (IF template_config.requires_body /\ Falsy(n.body)
            THEN <<"requires a body">> ELSE <<>>)
        \o (IF ~template_config.supports_data /\ DOMAIN n.data # {}
            THEN <<"does not support custom data">> ELSE <<>>)
        \o (IF n.scheduled_at # NoTime /\ n.scheduled_at[1] < buffer_time
            THEN <<"Scheduled time cannot be in the past (with 5-minute buffer)">>
            ELSE <<>>)
        \o (IF n.expires_at # NoTime /\ n.expires_at[1] < current_time
            THEN <<"Expiration time cannot be in the past">> ELSE <<>>)

\* Notification.is_valid
is_valid(n, now_) == Len(validate(n, now_)) = 0

\* Notification.get_target_count
get_target_count(n) ==
    IF n.device_tokens # <<>> THEN Len(n.device_tokens)
    ELSE IF n.topic # None THEN 1
    ELSE 0

\* f"{ttl}s"
FormatTtl(ttl) == ToString(ttl) \o "s"

\* a dict literal with the given keys left out when their guard is false
DictOf(keys, value) == [k \in keys |-> value[k]]

\* Notification.to_fcm_message: the dict it returns, or the KeyError of a
\* subscript on a key the dict does not have. Dicts are functions from
\* their keys; ttl is <<>> for None.
to_fcm_message(n) ==
    LET notification_ ==
            DictOf((IF ~Falsy(n.title) THEN {"title"} ELSE {})
                      \cup (IF ~Falsy(n.body) THEN {"body"} ELSE {}),
                   [title |-> n.title, body |-> n.body])
        targeting ==
            IF n.device_tokens # <<>> THEN {"token"}
            ELSE IF ~Falsy(n.topic) THEN {"topic"} ELSE {}
        \* "apns": {} of the literal; no statement adds a key to it
        apns == <<>>
        ttl_set == n.ttl # <<>> /\ n.ttl[1] # 0
        android ==
            DictOf((IF ~Falsy(n.priority) THEN {"priority"} ELSE {})
                      \cup (IF ~Falsy(n.collapse_key)
                            THEN {"collapse_key"} ELSE {})
                      \cup (IF ttl_set THEN {"ttl"} ELSE {}),
                   [priority |-> n.priority,
                    collapse_key |-> n.collapse_key,
                    ttl |-> IF ttl_set THEN FormatTtl(n.ttl[1]) ELSE None])
    IN  IF ~Falsy(n.priority) /\ "headers" \notin DOMAIN apns
        THEN \* message["message"]["apns"]["headers"][...] = ...
             [raised |-> TRUE, error |-> "KeyError: 'headers'"]
        ELSE [raised |-> FALSE,
              message |->
                  DictOf({"notification", "data", "android", "apns",
                          "webpush"} \cup targeting,
                         [notification |-> notification_, data |-> n.data,
                          android |-> android,
                          apns |->
                              IF ~Falsy(n.priority)
                              THEN [apns EXCEPT
                                      !["headers"] =
                                          [@ EXCEPT !["apns-priority"] =
                                              IF n.priority = "high"
                                              THEN "10" ELSE "5"]]
                              ELSE apns,
                          webpush |-> <<>>,
                          token |-> IF n.device_tokens # <<>>
                                    THEN n.device_tokens[1] ELSE None,
                          topic |-> n.topic])]

\* Notification.create_device_notification (the handlers' **kwargs carry
\* scheduled_at)
create_device_notification(id, notification_type, device_tokens, title, body, data, scheduled_at) ==
    [NewNotification(id, notification_type, title, body, device_tokens, None)
        EXCEPT !.data = data, !.scheduled_at = scheduled_at]

\* Notification.create_topic_notification
create_topic_notification(id, notification_type, topic, title, body, data, scheduled_at) ==
    [NewNotification(id, notification_type, title, body, <<>>, topic)
        EXCEPT !.data = data, !.scheduled_at = scheduled_at]

\* ------------------------------------------------------------ domain service
\* mutant: returns the notification without validating it
create_notification_unvalidated(id, notification_type, title, body, data, device_tokens, topic, scheduled_at, now_) ==
    IF device_tokens = <<>> /\ topic = None
    THEN [raised |-> TRUE, notification |-> NoNotification,
          error |-> <<"Must specify either device tokens or topic">>]
    ELSE IF device_tokens # <<>> /\ topic # None
    THEN [raised |-> TRUE, notification |-> NoNotification,
          error |-> <<"Cannot specify both device tokens and topic">>]
    ELSE [raised |-> FALSE, error |-> <<>>,
          notification |->
             IF device_tokens # <<>>
             THEN create_device_notification(id, notification_type,
                      device_tokens, title, body, data, scheduled_at)
             ELSE create_topic_notification(id, notification_type, topic,
                      title, body, data, scheduled_at)]

\* mutant: the validation error names the first violated rule only
create_notification_first_error(id, notification_type, title, body, data, device_tokens, topic, scheduled_at, now_) ==
    IF device_tokens = <<>> /\ topic = None
    THEN [raised |-> TRUE, notification |-> NoNotification,
          error |-> <<"Must specify either device tokens or topic">>]
    ELSE IF device_tokens # <<>> /\ topic # None
    THEN [raised |-> TRUE, notification |-> NoNotification,
          error |-> <<"Cannot specify both device tokens and topic">>]
    ELSE LET n == IF device_tokens # <<>>
                  THEN create_device_notification(id, notification_type,
                           device_tokens, title, body, data, scheduled_at)
                  ELSE create_topic_notification(id, notification_type,
                           topic, title, body, data, scheduled_at)
             validation_errors == validate(n, now_)
         IN  IF validation_errors # <<>>
             THEN [raised |-> TRUE, notification |-> NoNotification,
                   error |-> <<"Invalid notification", validation_errors[1]>>]
             ELSE [raised |-> FALSE, notification |-> n, error |-> <<>>]

\* NotificationDomainService.create_notification, validate() reading the
\* clock at now_: the notification, or the ValueError raised. The message of
\* the error is a sequence: the two targeting messages as they are,
\* f"Invalid notification: {'; '.join(validation_errors)}" as the headline
\* followed by the joined messages.
create_notification(id, notification_type, title, body, data, device_tokens, topic, scheduled_at, now_) ==
    IF device_tokens = <<>> /\ topic = None
    THEN [raised |-> TRUE, notification |-> NoNotification,
          error |-> <<"Must specify either device tokens or topic">>]
    ELSE IF device_tokens # <<>> /\ topic # None
    THEN [raised |-> TRUE, notification |-> NoNotification,
          error |-> <<"Cannot specify both device tokens and topic">>]
    ELSE LET n == IF device_tokens # <<>>
                  THEN create_device_notification(id, notification_type,
                           device_tokens, title, body, data, scheduled_at)
                  ELSE create_topic_notification(id, notification_type,
                           topic, title, body, data, scheduled_at)
             validation_errors == validate(n, now_)
         IN  IF validation_errors # <<>>
             THEN [raised |-> TRUE, notification |-> NoNotification,
                   error |-> <<"Invalid notification">> \o validation_errors]
             ELSE [raised |-> FALSE, notification |-> n, error |-> <<>>]

\* mutant: a notification that has failed max_retries times is retried again
should_retry_notification_inclusive(n, max_retries, now_) ==
    IF n.status # "failed" THEN FALSE
    ELSE IF n.failed_count > max_retries THEN FALSE
    ELSE IF n.expires_at # NoTime /\ n.expires_at[1] < now_ THEN FALSE
    ELSE TRUE

\* NotificationDomainService.should_retry_notification, the clock read at now_
should_retry_notification(n, max_retries, now_) ==
    IF n.status # "failed" THEN FALSE
    ELSE IF n.failed_count >= max_retries THEN FALSE
    ELSE IF n.expires_at # NoTime /\ n.expires_at[1] < now_ THEN FALSE
    ELSE TRUE

\* ----------------------------------------------------------- gateway client
\* What the call into the gateway SDK does: returns, or raises a
\* FirebaseError or another exception.
SdkErrors ==
    [kind : {"FirebaseError", "Exception"}, error : ErrorMessages]
SdkSendOutcomes ==
    [kind : {"ok"}, message_id : MessageIds] \cup SdkErrors
\* the batch response counts one success or one failure per token
SdkMulticastOutcomes(N) ==
    {[kind |-> "ok", success_count |-> s, failure_count |-> N - s] :
        s \in 0..N} \cup SdkErrors

\* what the SDK call behind a device send to N tokens can do
SdkOutcomesFor(N) ==
    IF N = 1 THEN SdkSendOutcomes ELSE SdkMulticastOutcomes(N)

\* mutant: the error of a raising SDK call is lost on the way to the result
send_to_device_no_error(device_token, sdk) ==
    IF sdk.kind = "ok"
    THEN [success |-> TRUE, message_id |-> sdk.message_id,
          device_token |-> device_token, error |-> None]
    ELSE [success |-> FALSE, message_id |-> None,
          device_token |-> device_token, error |-> None]

\* FCMClient.send_to_device
send_to_device(device_token, sdk) ==
    IF sdk.kind = "ok"
    THEN [success |-> TRUE, message_id |-> sdk.message_id,
          device_token |-> device_token, error |-> None]
    ELSE [success |-> FALSE, message_id |-> None,
          device_token |-> device_token, error |-> sdk.error]

\* FCMClient.send_to_multiple_devices (the per-token `responses` list, which
\* no handler reads, is left out)
send_to_multiple_devices(device_tokens, sdk) ==
    IF sdk.kind = "ok"
    THEN [success |-> TRUE, success_count |-> sdk.success_count,
          failure_count |-> sdk.failure_count, error |-> None]
    ELSE [success |-> FALSE, success_count |-> 0,
          failure_count |-> Len(device_tokens), error |-> sdk.error]

\* FCMClient.send_to_topic
send_to_topic(topic, sdk) ==
    IF sdk.kind = "ok"
    THEN [success |-> TRUE, message_id |-> sdk.message_id,
          topic |-> topic, error |-> None]
    ELSE [success |-> FALSE, message_id |-> None,
          topic |-> topic, error |-> sdk.error]

\* dict.get(key): None when the key is missing
Get(d, key) == IF key \in DOMAIN d THEN d[key] ELSE None

\* ------------------------------------------------------------------ ids
\* uuid4 values are fresh: each place that draws one gets its own tag
HandlerId == <<"handler", 0>>
EntityId(k) == <<"entity", k>>
ResponseId(k) == <<"response", k>>

\* ------------------------------------------------------- responses
\* (no response yet: [kind |-> "none"], see InitCommon)
\* the framework rejects a body that does not parse; the handler never runs
RequestValidationError == [kind |-> "error", status_code |-> 422]
\* raise HTTPException(status_code=500, detail=str(e))
HTTPException500 == [kind |-> "error", status_code |-> 500]

\* mutant: only a dispatch that reached every target counts as a success
ResponseSuccess_all_sent(st) == st = "success"

\* success=status != "failed" of a SendNotificationResponse
ResponseSuccess(st) == st # "failed"

NotificationResult(notification_id, st, sc, fc, error_message, target_count) ==
    [notification_id |-> notification_id, status |-> st, sent_count |-> sc,
     failed_count |-> fc, error_message |-> error_message,
     target_count |-> target_count]

\* ------------------------------------------------------------- store client
\* mutant: the command is issued twice
valkey_set_twice(st, key, value, ex) ==
    st \o <<[key |-> key, value |-> value, ex |-> ex],
            [key |-> key, value |-> value, ex |-> ex]>>

\* ValkeyClient.set, when the command succeeds: SET key value EX ex
valkey_set(st, key, value, ex) ==
    Append(st, [key |-> key, value |-> value, ex |-> ex])

\* ValkeyClient.publish, when the command succeeds
valkey_publish(ev, channel, message) ==
    Append(ev, [channel |-> channel, message |-> message])

\* f"notification:{notification_id}"
StatusKey(notification_id) == <<"notification", notification_id>>

\* -------------------------------------------------- POST /send (one request)
\* mutant: the multicast branch reports 'success' whenever the call returned
MulticastOutcome_no_partial(n, res, N) ==
    IF res.success
    THEN [notification |-> mark_sent(n, res.success_count),
          sent_count |-> res.success_count,
          failed_count |-> res.failure_count,
          status |-> "success", steps |-> <<"mark_sent">>]
    ELSE [notification |-> mark_failed(n, res.error, 1),
          sent_count |-> 0, failed_count |-> N,
          status |-> "failed", steps |-> <<"mark_failed">>]

\* mutant: the failure branch of a single send reports the send as sent
SingleOutcome_swapped(n, res) ==
    IF res.success
    THEN [notification |-> mark_sent(n, 1),
          sent_count |-> 1, failed_count |-> 0,
          status |-> "success", steps |-> <<"mark_sent">>]
    ELSE [notification |-> mark_failed(n, res.error, 1),
          sent_count |-> 1, failed_count |-> 0,
          status |-> "failed", steps |-> <<"mark_failed">>]

\* send_notification, single device: entity marks and handler locals
SingleOutcome(n, res) ==
    IF res.success
    THEN [notification |-> mark_sent(n, 1),
          sent_count |-> 1, failed_count |-> 0,
          status |-> "success", steps |-> <<"mark_sent">>]
    ELSE [notification |-> mark_failed(n, res.error, 1),
          sent_count |-> 0, failed_count |-> 1,
          status |-> "failed", steps |-> <<"mark_failed">>]

\* send_notification, multiple devices: entity marks and handler locals
MulticastOutcome(n, res, N) ==
    IF res.success
    THEN [notification |->
             IF res.failure_count > 0
             THEN mark_failed(mark_sent(n, res.success_count),
                              "Some devices failed", res.failure_count)
             ELSE mark_sent(n, res.success_count),
          sent_count |-> res.success_count,
          failed_count |-> res.failure_count,
          status |-> IF res.failure_count > 0 THEN "partial" ELSE "success",
          steps |-> IF res.failure_count > 0
                    THEN <<"mark_sent", "mark_failed">>
                    ELSE <<"mark_sent">>]
    ELSE [notification |-> mark_failed(n, res.error, 1),
          sent_count |-> 0, failed_count |-> N,
          status |-> "failed", steps |-> <<"mark_failed">>]

\* mutant: the status record is written before the entity is marked
AfterGateway_set_first(steps) == <<"gateway_return", "set">> \o steps

\* the steps a handler takes once its gateway call has returned, up to the
\* next suspension point: mark the entity, then issue the status write
AfterGateway(steps) == <<"gateway_return">> \o steps \o <<"set">>

\* send_notification up to its first await
SendStart(req) ==
    /\ pc = "idle"
    /\ request' = req
    /\ IF ~SendRequestParses(req.device_tokens)
       THEN /\ response' = RequestValidationError
            /\ pc' = "done"
            /\ UNCHANGED <<notification, log>>
       ELSE LET tokens == req.device_tokens
                created == create_notification(EntityId(0),
                               req.notification_type, req.title, req.body,
                               EmptyDict, tokens, None, req.scheduled_at,
                               now)
            IN  IF \/ \E k \in DOMAIN tokens : ~DeviceTokenValid(tokens[k])
                   \/ ~DeviceTokenListValid(tokens)
                   \/ created.raised
                THEN /\ response' = HTTPException500
                     /\ pc' = "done"
                     /\ UNCHANGED <<notification, log>>
                ELSE /\ notification' = created.notification
                     /\ log' = <<IF Len(tokens) = 1 THEN "send_to_device"
                                 ELSE "send_to_multiple_devices">>
                     /\ pc' = "gateway"
                     /\ UNCHANGED response
    /\ UNCHANGED <<calls, now, sideVars, result, sent_count, failed_count,
                   status, results, store, events, idx, successful_count,
                   notification_status, outcomes>>

\* send_notification from the gateway's answer to the status write
SendGatewayReturns(sdk) ==
    /\ pc = "gateway"
    /\ request.kind = "send"
    /\ LET device_token_values == notification.device_tokens
           N == Len(device_token_values)
           res == IF N = 1
                  THEN send_to_device(device_token_values[1], sdk)
                  ELSE send_to_multiple_devices(device_token_values, sdk)
           out == IF N = 1 THEN SingleOutcome(notification, res)
                  ELSE MulticastOutcome(notification, res, N)
       IN  /\ sdk \in SdkOutcomesFor(N)
           /\ result' = res
           /\ notification' = out.notification
           /\ sent_count' = out.sent_count
           /\ failed_count' = out.failed_count
           /\ status' = out.status
           /\ results' = <<NotificationResult(HandlerId, out.status,
                               out.sent_count, out.failed_count,
                               Get(res, "error"),
                               IF N = 1 THEN 1 ELSE N)>>
           /\ notification_status' =
                 [notification_id |-> HandlerId,
                  type |-> notification.notification_type,
                  target_count |-> get_target_count(out.notification),
                  sent_count |-> out.sent_count,
                  failed_count |-> out.failed_count,
                  status |-> out.status,
                  error_message |-> Get(res, "error"),
                  message_id |-> Get(res, "message_id")]
           /\ log' = log \o AfterGateway(out.steps)
    /\ pc' = "set"
    /\ UNCHANGED <<calls, now, sideVars, request, response, store, events,
                   idx, successful_count, outcomes>>

\* send_notification from the status write's answer to the publish
SendSetReturns(ok) ==
    /\ pc = "set"
    /\ request.kind = "send"
    /\ IF ok
       THEN /\ store' = valkey_set(store,
                            StatusKey(notification_status.notification_id),
                            notification_status, 3600)
            /\ log' = Append(log, "publish")
            /\ pc' = "publish"
            /\ UNCHANGED response
       ELSE /\ response' = HTTPException500
            /\ pc' = "done"
            /\ UNCHANGED <<store, log>>
    /\ UNCHANGED <<notification, calls, now, sideVars, request, result,
                   sent_count, failed_count, status, results, events, idx,
                   successful_count, notification_status, outcomes>>

\* send_notification from the publish's answer to its return
SendPublishReturns(ok) ==
    /\ pc = "publish"
    /\ request.kind = "send"
    /\ IF ok
       THEN /\ events' = valkey_publish(events, "notification.sent",
                                        notification_status)
            /\ response' =
                  [kind |-> "SendNotificationResponse",
                   success |-> ResponseSuccess(status),
                   notification_id |-> HandlerId,
                   results |-> results,
                   total_sent |-> sent_count,
                   total_failed |-> failed_count,
                   total_targets |-> get_target_count(notification)]
       ELSE /\ response' = HTTPException500
            /\ UNCHANGED events
    /\ pc' = "done"
    /\ UNCHANGED <<notification, calls, now, sideVars, request, result,
                   sent_count, failed_count, status, results, store, log, idx,
                   successful_count, notification_status, outcomes>>

\* ------------------------------------------------- POST /topic (one request)
\* send_topic_notification: entity mark and handler locals
TopicOutcome(n, res) ==
    IF res.success
    THEN [notification |-> mark_sent(n, 1), message_id |-> res.message_id,
          status |-> "success", steps |-> <<"mark_sent">>]
    ELSE [notification |-> mark_failed(n, res.error, 1), message_id |-> None,
          status |-> "failed", steps |-> <<"mark_failed">>]

\* send_topic_notification up to its first await
TopicStart(req) ==
    /\ pc = "idle"
    /\ request' = req
    /\ IF ~TopicRequestParses(req.topic)
       THEN /\ response' = RequestValidationError
            /\ pc' = "done"
            /\ UNCHANGED <<notification, log>>
       ELSE LET created == create_notification(EntityId(0),
                               req.notification_type, req.title, req.body,
                               EmptyDict, <<>>, req.topic, req.scheduled_at,
                               now)
            IN  IF ~TopicValid(req.topic) \/ created.raised
                THEN /\ response' = HTTPException500
                     /\ pc' = "done"
                     /\ UNCHANGED <<notification, log>>
                ELSE /\ notification' = created.notification
                     /\ log' = <<"send_to_topic">>
                     /\ pc' = "gateway"
                     /\ UNCHANGED response
    /\ UNCHANGED <<calls, now, sideVars, result, sent_count, failed_count,
                   status, results, store, events, idx, successful_count,
                   notification_status, outcomes>>

\* send_topic_notification from the gateway's answer to the status write
TopicGatewayReturns(sdk) ==
    /\ pc = "gateway"
    /\ request.kind = "topic"
    /\ LET res == send_to_topic(notification.topic, sdk)
           out == TopicOutcome(notification, res)
       IN  /\ result' = res
           /\ notification' = out.notification
           /\ status' = out.status
           /\ notification_status' =
                 [notification_id |-> HandlerId,
                  topic |-> notification.topic,
                  type |-> notification.notification_type,
                  status |-> out.status,
                  message_id |-> out.message_id,
                  error_message |-> Get(res, "error")]
           /\ log' = log \o AfterGateway(out.steps)
    /\ pc' = "set"
    /\ UNCHANGED <<calls, now, sideVars, request, sent_count, failed_count,
                   results, response, store, events, idx, successful_count,
                   outcomes>>

\* send_topic_notification from the status write's answer to the publish
TopicSetReturns(ok) ==
    /\ pc = "set"
    /\ request.kind = "topic"
    /\ IF ok
       THEN /\ store' = valkey_set(store,
                            StatusKey(notification_status.notification_id),
                            notification_status, 3600)
            /\ log' = Append(log, "publish")
            /\ pc' = "publish"
            /\ UNCHANGED response
       ELSE /\ response' = HTTPException500
            /\ pc' = "done"
            /\ UNCHANGED <<store, log>>
    /\ UNCHANGED <<notification, calls, now, sideVars, request, result,
                   sent_count, failed_count, status, results, events, idx,
                   successful_count, notification_status, outcomes>>

\* send_topic_notification from the publish's answer to its return
TopicPublishReturns(ok) ==
    /\ pc = "publish"
    /\ request.kind = "topic"
    /\ IF ok
       THEN /\ events' = valkey_publish(events, "notification.topic.sent",
                                        notification_status)
            /\ response' =
                  [kind |-> "TopicNotificationResponse",
                   success |-> status = "success",
                   notification_id |-> HandlerId,
                   topic |-> notification.topic,
                   message_id |-> notification_status.message_id]
       ELSE /\ response' = HTTPException500
            /\ UNCHANGED events
    /\ pc' = "done"
    /\ UNCHANGED <<notification, calls, now, sideVars, request, result,
                   sent_count, failed_count, status, results, store, log, idx,
                   successful_count, notification_status, outcomes>>

Init ==
    /\ notification = NoNotification
    /\ InitCommon

Next ==
    \/ \E req \in SendRequests : SendStart(req)
    \/ \E sdk \in SdkOutcomesFor(Len(notification.device_tokens)) :
          SendGatewayReturns(sdk)
    \/ \E ok \in BOOLEAN : SendSetReturns(ok)
    \/ \E ok \in BOOLEAN : SendPublishReturns(ok)
    \/ \E req \in TopicRequests : TopicStart(req)
    \/ \E sdk \in SdkSendOutcomes : TopicGatewayReturns(sdk)
    \/ \E ok \in BOOLEAN : TopicSetReturns(ok)
    \/ \E ok \in BOOLEAN : TopicPublishReturns(ok)

Spec == Init /\ [][Next]_vars

\* ---- helpers for the dispatch claims
GatewayCalls ==
    {"send_to_device", "send_to_multiple_devices", "send_to_topic"}
Marks == {"mark_sent", "mark_failed"}
\* positions of the log holding one of the given steps
Positions(steps) == {k \in DOMAIN log : log[k] \in steps}
\* the gateway call of the running dispatch has completed
Returned == Positions({"gateway_return"}) # {}
\* each step of `later` in the log comes after some step of `earlier`
After(later, earlier) ==
    \A k \in Positions(later) : \E j \in Positions(earlier) : j < k

\* C3: a device send with N > 1 tokens makes exactly one multicast gateway
\* call; outright gateway failure gives status failed, sent_count 0,
\* failed_count N; counts with failure_count > 0 give status partial with the
\* gateway's counts; failure_count = 0 gives status success; target_count is
\* N in all three cases.
C3_MulticastAggregation ==
    (request.kind = "send" /\ Returned /\ Len(request.device_tokens) > 1) =>
        LET N == Len(request.device_tokens)
            r == results[1]
        IN  /\ Cardinality(Positions(GatewayCalls)) = 1
            /\ log[1] = "send_to_multiple_devices"
            /\ Len(results) = 1
            /\ r.target_count = N
            /\ ~result.success =>
                  /\ r.status = "failed"
                  /\ r.sent_count = 0
                  /\ r.failed_count = N
            /\ (result.success /\ result.failure_count > 0) =>
                  /\ r.status = "partial"
                  /\ r.sent_count = result.success_count
                  /\ r.failed_count = result.failure_count
            /\ (result.success /\ result.failure_count = 0) =>
                  r.status = "success"
            /\ response.kind = "SendNotificationResponse" =>
                  /\ response.results = results
                  /\ response.total_targets = N

\* a 3-token send answered with 2 successes and 1 failure, reported partial
C3_Witness ==
    /\ pc = "done"
    /\ response.kind = "SendNotificationResponse"
    /\ Len(request.device_tokens) = 3
    /\ result.success
    /\ response.results[1].status = "partial"
    /\ response.results[1].sent_count = 2
    /\ response.results[1].failed_count = 1
    /\ response.results[1].target_count = 3

C5_EntityAgreesWithResult ==
    /\ (request.kind = "send" /\ Returned) =>
          /\ notification.sent_count = results[1].sent_count
          /\ notification.failed_count = results[1].failed_count
          /\ (notification.status = "failed") <=> (results[1].status = "failed")
    /\ (request.kind = "topic" /\ Returned) =>
          ((notification.status = "failed") <=> (status = "failed"))

\* C6: once the gateway call of a dispatch has completed, a failure of the
\* status write or of the event publish never changes what the caller is
\* told: the response carries the gateway-determined status and counts.
C6_StoreFailureNeverMasksOutcome ==
    (pc = "done" /\ Returned) =>
        /\ response.kind # "error"
        /\ request.kind = "send" =>
              /\ response.results[1].status = status
              /\ response.total_sent = sent_count
              /\ response.total_failed = failed_count
        /\ request.kind = "topic" =>
              response.success = (status = "success")

\* C10: within one dispatch the gateway call completes first, then the
\* entity is marked, then the status record is written, then the event is
\* published; no store write or publish precedes the gateway's completion,
\* and the entity is not mutated after the status record was written.
C10_Order ==
    /\ After({"gateway_return"}, GatewayCalls)
    /\ After(Marks, {"gateway_return"})
    /\ After({"set"}, Marks)
    /\ After({"set", "publish"}, {"gateway_return"})
    /\ After({"publish"}, {"set"})
    /\ \A k \in Positions(Marks) : \A j \in Positions({"set", "publish"}) :
          k < j
    /\ Cardinality(Positions({"set"})) <= 1
    /\ Cardinality(Positions({"publish"})) <= 1

C10_EntityFrozen ==
    Positions({"set"}) # {} => notification' = notification

C10_StepOrder == []C10_Order /\ [][C10_EntityFrozen]_vars

\* a multicast dispatch that ran through all its steps
C10_Witness ==
    /\ pc = "done"
    /\ log = <<"send_to_multiple_devices", "gateway_return", "mark_sent",
               "mark_failed", "set", "publish">>
    /\ Len(store) = 1
    /\ Len(events) = 1

\* ------------------------------------------------ POST /batch (one request)
\* device token lists of a batch item: empty, one token, two tokens, a token
\* that is too short, a repeated token
BatchTokenLists == {<<>>, <<"a">>, <<"a", "b">>, <<"s">>, <<"a", "a">>}

BatchItemRequests ==
    [device_tokens : BatchTokenLists, notification_type : {"alert"},
     title : Titles, body : {"World"}, scheduled_at : {scheduled_at_default}]

BatchRequests ==
    [kind : {"batch"}, notifications : SeqsUpTo(BatchItemRequests, MaxBatch)]

\* BatchNotificationRequest parses: validate_notifications, and every item
\* parses as a SendNotificationRequest
BatchRequestParses(notifications) ==
    /\ notifications # <<>>
    /\ ~(Len(notifications) > 100)
    /\ \A k \in DOMAIN notifications :
          SendRequestParses(notifications[k].device_tokens)

\* batch_id = str(uuid.uuid4())
BatchId == <<"batch", 0>>

\* send_batch_notifications, single device branch: the locals after it.
\* `failed_count` is one local: the item's count and the batch's rollup.
BatchSingleOutcome(res, successful) ==
    IF res.success
    THEN [sent_count |-> 1, failed_count |-> 0, status |-> "success",
          successful_count |-> successful + 1]
    ELSE [sent_count |-> 0, failed_count |-> 1 + 1, status |-> "failed",
          successful_count |-> successful]

\* send_batch_notifications, multiple devices branch: the locals after it
BatchMulticastOutcome(res, N, successful) ==
    IF res.success
    THEN [sent_count |-> res.success_count,
          failed_count |-> res.failure_count,
          status |-> IF res.failure_count > 0 THEN "partial" ELSE "success",
          successful_count |-> successful + 1]
    ELSE [sent_count |-> 0, failed_count |-> N + 1, status |-> "failed",
          successful_count |-> successful]

\* the per-item response appended by the item's `except Exception`
FailedItemResponse(k) ==
    [kind |-> "SendNotificationResponse", success |-> FALSE,
     notification_id |-> ResponseId(k), results |-> <<>>,
     total_sent |-> 0, total_failed |-> 1, total_targets |-> 0]

\* send_batch_notifications up to the loop
BatchStart(req) ==
    /\ pc = "idle"
    /\ request' = req
    /\ IF ~BatchRequestParses(req.notifications)
       THEN /\ response' = RequestValidationError
            /\ pc' = "done"
            /\ UNCHANGED idx
       ELSE /\ idx' = 1
            /\ pc' = "item"
            /\ UNCHANGED response
    /\ UNCHANGED <<notification, calls, now, sideVars, result, sent_count,
                   failed_count, status, results, store, events, log,
                   successful_count, notification_status, outcomes>>

\* one loop iteration up to its first await, or to its `except` when the
\* item's domain objects cannot be built
BatchItemStart ==
    /\ pc = "item"
    /\ idx <= Len(request.notifications)
    /\ LET item == request.notifications[idx]
           tokens == item.device_tokens
           created == create_notification(EntityId(idx),
                          item.notification_type, item.title, item.body,
                          EmptyDict, tokens, None, item.scheduled_at, now)
       IN  IF \/ \E k \in DOMAIN tokens : ~DeviceTokenValid(tokens[k])
              \/ ~DeviceTokenListValid(tokens)
              \/ created.raised
           THEN /\ failed_count' = failed_count + 1
                /\ results' = Append(results, FailedItemResponse(idx))
                /\ outcomes' = Append(outcomes, "invalid")
                /\ idx' = idx + 1
                /\ UNCHANGED <<notification, log, pc>>
           ELSE /\ notification' = created.notification
                /\ log' = Append(log, IF Len(tokens) = 1 THEN "send_to_device"
                                      ELSE "send_to_multiple_devices")
                /\ pc' = "gateway"
                /\ UNCHANGED <<failed_count, results, outcomes, idx>>
    /\ UNCHANGED <<calls, now, sideVars, request, result, sent_count, status,
                   response, store, events, successful_count,
                   notification_status>>

\* one loop iteration from the gateway's answer to the status write
BatchGatewayReturns(sdk) ==
    /\ pc = "gateway"
    /\ request.kind = "batch"
    /\ LET device_token_values == notification.device_tokens
           N == Len(device_token_values)
           res == IF N = 1
                  THEN send_to_device(device_token_values[1], sdk)
                  ELSE send_to_multiple_devices(device_token_values, sdk)
           out == IF N = 1 THEN BatchSingleOutcome(res, successful_count)
                  ELSE BatchMulticastOutcome(res, N, successful_count)
       IN  /\ sdk \in SdkOutcomesFor(N)
           /\ result' = res
           /\ sent_count' = out.sent_count
           /\ failed_count' = out.failed_count
           /\ status' = out.status
           /\ successful_count' = out.successful_count
           /\ notification_status' =
                 [notification_id |-> notification.id,
                  type |-> notification.notification_type,
                  target_count |-> N,
                  sent_count |-> out.sent_count,
                  failed_count |-> out.failed_count,
                  status |-> out.status,
                  error_message |-> Get(res, "error"),
                  message_id |-> Get(res, "message_id"),
                  batch_id |-> BatchId]
           /\ log' = log \o <<"gateway_return", "set">>
    /\ pc' = "set"
    /\ UNCHANGED <<notification, calls, now, sideVars, request, results,
                   response, store, events, idx, outcomes>>

\* one loop iteration from the status write's answer to the end of the item
BatchSetReturns(ok) ==
    /\ pc = "set"
    /\ request.kind = "batch"
    /\ IF ok
       THEN /\ store' = valkey_set(store,
                            StatusKey(notification.id),
                            notification_status, 3600)
            /\ results' = Append(results,
                  [kind |-> "SendNotificationResponse",
                   success |-> ResponseSuccess(status),
                   notification_id |-> ResponseId(idx),
                   results |-> <<NotificationResult(notification.id, status,
                                    sent_count, failed_count,
                                    Get(result, "error"),
                                    Len(notification.device_tokens))>>,
                   total_sent |-> sent_count,
                   total_failed |-> failed_count,
                   total_targets |-> Len(notification.device_tokens)])
            /\ outcomes' = Append(outcomes,
                  IF result.success THEN "sent" ELSE "gateway_failed")
            /\ UNCHANGED failed_count
       ELSE /\ failed_count' = failed_count + 1
            /\ results' = Append(results, FailedItemResponse(idx))
            /\ outcomes' = Append(outcomes, "store_failed")
            /\ UNCHANGED store
    /\ idx' = idx + 1
    /\ pc' = "item"
    /\ UNCHANGED <<notification, calls, now, sideVars, request, result,
                   sent_count, status, response, events, log,
                   successful_count, notification_status>>

\* the loop is over: the batch event is published
BatchLoopEnds ==
    /\ pc = "item"
    /\ idx > Len(request.notifications)
    /\ log' = Append(log, "publish")
    /\ pc' = "publish"
    /\ UNCHANGED <<notification, calls, now, sideVars, request, result,
                   sent_count, failed_count, status, results, response, store,
                   events, idx, successful_count, notification_status,
                   outcomes>>

\* send_batch_notifications from the publish's answer to its return
BatchPublishReturns(ok) ==
    /\ pc = "publish"
    /\ request.kind = "batch"
    /\ IF ok
       THEN /\ events' = valkey_publish(events, "notification.batch.sent",
                  [batch_id |-> BatchId,
                   total_notifications |-> Len(request.notifications),
                   successful_count |-> successful_count,
                   failed_count |-> failed_count])
            /\ response' =
                  [kind |-> "BatchNotificationResponse",
                   success |-> failed_count = 0,
                   batch_id |-> BatchId,
                   total_notifications |-> Len(request.notifications),
                   successful_notifications |-> successful_count,
                   failed_notifications |-> failed_count,
                   results |-> results]
       ELSE /\ response' = HTTPException500
            /\ UNCHANGED events
    /\ pc' = "done"
    /\ UNCHANGED <<notification, calls, now, sideVars, request, result,
                   sent_count, failed_count, status, results, store, log, idx,
                   successful_count, notification_status, outcomes>>

NextBatch ==
    \/ \E req \in BatchRequests : BatchStart(req)
    \/ BatchItemStart
    \/ \E sdk \in SdkOutcomesFor(Len(notification.device_tokens)) :
          BatchGatewayReturns(sdk)
    \/ \E ok \in BOOLEAN : BatchSetReturns(ok)
    \/ BatchLoopEnds
    \/ \E ok \in BOOLEAN : BatchPublishReturns(ok)

SpecBatch == Init /\ [][NextBatch]_vars

\* ---- batch claims
\* the per-item results with success = true
SucceededItems(rs) == {k \in DOMAIN rs : rs[k].success}

\* something went wrong while item k was processed
ItemFailed(k) == outcomes[k] \in {"invalid", "gateway_failed", "store_failed"}

\* C7: at the end of a batch successful_notifications is the number of items
\* whose result has success = true, failed_notifications the number of items
\* whose result has success = false, and the two add up to
\* total_notifications.
C7_BatchRollup ==
    (pc = "done" /\ response.kind = "BatchNotificationResponse") =>
        /\ response.successful_notifications
              = Cardinality(SucceededItems(response.results))
        /\ response.failed_notifications
              = Len(response.results)
                   - Cardinality(SucceededItems(response.results))
        /\ response.successful_notifications + response.failed_notifications
              = response.total_notifications

\* C8: in a batch of N requests a failure while item i is processed
\* (malformed tokens such as an empty token list, validation failure,
\* gateway failure, store failure) gives a failed result for item i and does
\* not stop the later items: the response has exactly N results, the k-th
\* for the k-th request. (A failed final publish is left to C9.)
C8_BatchIsolation ==
    (/\ pc = "done"
     /\ request.kind = "batch"
     /\ request.notifications # <<>>
     /\ response # HTTPException500) =>
        /\ response.kind = "BatchNotificationResponse"
        /\ Len(response.results) = Len(request.notifications)
        /\ \A k \in DOMAIN response.results :
              /\ response.results[k].notification_id = ResponseId(k)
              /\ ItemFailed(k) => ~response.results[k].success

\* C9: a batch always runs to completion and returns a response with one
\* result per request, whatever errors occur in the gateway or the store,
\* including a failure of the final batch-summary publish.
C9_BatchCompletes ==
    (/\ pc = "done"
     /\ request.kind = "batch"
     /\ BatchRequestParses(request.notifications)) =>
        /\ response.kind = "BatchNotificationResponse"
        /\ Len(response.results) = Len(request.notifications)

\* ------------------------------------ the three dispatch handlers together
\* one request to /send, /topic or /batch
NextDispatch ==
    \/ Next
    \/ NextBatch

SpecDispatch == Init /\ [][NextDispatch]_vars

\* ---- validation and outcome claims
\* building the domain objects of a device request (a /send body or a batch
\* item) raises: a DeviceToken, the DeviceTokenList, or validate() reports a
\* violation
DeviceRequestFails(req) ==
    \/ \E k \in DOMAIN req.device_tokens :
          TokenLen(req.device_tokens[k]) < 32
    \/ DeviceTokenList(req.device_tokens, max_tokens_per_request) # None
    \/ validate(create_device_notification(EntityId(0),
                    req.notification_type, req.device_tokens, req.title,
                    req.body, EmptyDict, req.scheduled_at), now) # <<>>

\* building the domain objects of a /topic request raises
TopicRequestFails(req) ==
    \/ ~TopicValid(req.topic)
    \/ validate(create_topic_notification(EntityId(0),
                    req.notification_type, req.topic, req.title, req.body,
                    EmptyDict, req.scheduled_at), now) # <<>>

\* no gateway call, store write or publish has been issued
NoIO == log = <<>> /\ store = <<>> /\ events = <<>>

\* the batch items whose processing has begun
Started ==
    IF pc \in {"gateway", "set"} THEN 1..idx ELSE 1..(idx - 1)

\* C11: a request or batch item that fails value-object construction or
\* validate() causes no gateway call, no store write and no publish: a failed
\* /send or /topic request leaves no I/O step at all, and in a batch the
\* gateway calls issued are exactly one per started item that passed
\* validation, and no status record carries the id of a failed item.
C11_ValidationBeforeIO ==
    /\ (request.kind = "send" /\ DeviceRequestFails(request)) => NoIO
    /\ (request.kind = "topic" /\ TopicRequestFails(request)) => NoIO
    /\ request.kind = "batch" =>
          /\ Cardinality(Positions(GatewayCalls))
                = Cardinality({k \in Started :
                      ~DeviceRequestFails(request.notifications[k])})
          /\ \A k \in DOMAIN request.notifications :
                DeviceRequestFails(request.notifications[k]) =>
                    \A j \in DOMAIN store :
                        store[j].key # StatusKey(EntityId(k))

\* a finished batch of two items: the first fails validate() for its missing
\* title, the second is dispatched; one gateway call in all
C11_Witness ==
    /\ pc = "done"
    /\ request.kind = "batch"
    /\ response.kind = "BatchNotificationResponse"
    /\ Len(request.notifications) = 2
    /\ request.notifications[1].device_tokens = <<"a">>
    /\ request.notifications[1].title = None
    /\ ~DeviceRequestFails(request.notifications[2])
    /\ Cardinality(Positions(GatewayCalls)) = 1
    /\ Len(store) = 1

\* C12: the success flag of a dispatch response is true exactly when the
\* reported status is not 'failed' (a 'partial' multicast dispatch is
\* reported with success = true): for a /send response and for every batch
\* item response that carries a result the status is that of the result, for
\* a /topic response it is the status of the record written for it.
C12_SuccessIffNotFailed ==
    /\ response.kind = "SendNotificationResponse" =>
          response.success = (response.results[1].status # "failed")
    /\ response.kind = "TopicNotificationResponse" =>
          response.success = (store[Len(store)].value.status # "failed")
    /\ request.kind = "batch" =>
          \A k \in DOMAIN results :
              results[k].results # <<>> =>
                  results[k].success
                      = (results[k].results[1].status # "failed")

\* a /send response reports status 'partial' with success = true
C12_Witness ==
    /\ response.kind = "SendNotificationResponse"
    /\ response.results[1].status = "partial"
    /\ response.results[1].sent_count = 1
    /\ response.success

\* C13: no dispatch result has status 'partial' together with sent_count = 0;
\* a multicast call that returns success_count = 0 and failure_count > 0 is
\* reported as 'failed'.
C13_NoPartialWithoutSend ==
    \A k \in DOMAIN results :
        /\ ~(results[k].status = "partial" /\ results[k].sent_count = 0)
        /\ ("success_count" \in DOMAIN result /\ result.success
               /\ result.success_count = 0 /\ result.failure_count > 0) =>
              results[k].status = "failed"

\* ------------------------------------------- the domain layer, call by call
\* SpecDomain: one call of a method of the entity, of the domain service or of
\* a value object's constructor. The receiver is `notification`, the other
\* arguments are `request`, the call and what it returned go to `calls`.
DomainTypes == {"alert", "silent", "promotional"}
DomainTitles == {None, "", "Hello"}
DomainDeviceTokens == {<<>>, <<"a">>, <<"a", "b">>}
DomainTopics == {None, "news-2024.v1"}
DomainData == {EmptyDict, << <<"k", "v">> >>}
ScheduledTimes == {NoTime, <<59>>, <<60>>, <<99>>}
ExpiryTimes == {NoTime, <<29>>, <<30>>}
Statuses == {"pending", "sent", "failed"}

\* the entities a method is called on
DomainNotifications ==
    {[NewNotification(EntityId(0), t, title, body, d, topic)
         EXCEPT !.data = data, !.scheduled_at = sa, !.expires_at = ea,
                !.status = st, !.failed_count = fc] :
        t \in DomainTypes, title \in DomainTitles, body \in Bodies,
        d \in DomainDeviceTokens, topic \in DomainTopics,
        data \in DomainData, sa \in ScheduledTimes, ea \in ExpiryTimes,
        st \in Statuses, fc \in 0..MaxStep}

\* the entities to_fcm_message is called on
Priorities == {"", "normal", "high"}
CollapseKeys == {None, "ck"}
Ttls == {<<>>, <<0>>, <<60>>}
FcmNotifications ==
    {[NewNotification(EntityId(0), "alert", title, "World", d, topic)
         EXCEPT !.priority = p, !.collapse_key = ck, !.ttl = ttl] :
        title \in Titles, d \in DomainDeviceTokens, topic \in DomainTopics,
        p \in Priorities, ck \in CollapseKeys, ttl \in Ttls}

\* the arguments of the calls that have no receiver
DomainArguments ==
    [kind : {"create_notification"}, notification_type : DomainTypes,
     title : DomainTitles, body : Bodies, data : DomainData,
     device_tokens : DomainDeviceTokens, topic : DomainTopics,
     scheduled_at : ScheduledTimes]
    \cup [kind : {"DeviceTokenList"},
          tokens : SeqsUpTo(TokenValues \ {"s"}, MaxTokens),
          max_tokens : {1, 2, 500}]
    \cup [kind : {"TopicSubscription"},
          device_tokens : SeqsUpTo(TokenValues, MaxTokens)]

InitDomain ==
    /\ \/ notification \in DomainNotifications /\ request = [kind |-> "none"]
       \/ notification = NoNotification /\ request \in DomainArguments
       \/ /\ notification \in FcmNotifications
          /\ request = [kind |-> "to_fcm_message"]
    /\ calls = <<>>
    /\ pc = "idle"
    /\ result = [success |-> FALSE]
    /\ sent_count = 0
    /\ failed_count = 0
    /\ status = None
    /\ results = <<>>
    /\ response = [kind |-> "none"]
    /\ store = <<>>
    /\ events = <<>>
    /\ log = <<>>
    /\ idx = 0
    /\ successful_count = 0
    /\ notification_status = [notification_id |-> <<"none", 0>>]
    /\ outcomes = <<>>
    /\ now \in Clock
    /\ tasks = [t \in Tasks |-> IdleTask]
    /\ client = NewValkeyClient
    /\ query = IdleQuery

\* notification.validate()
Validate ==
    /\ calls = <<>>
    /\ request.kind = "none"
    /\ calls' = <<[op |-> "validate", self |-> notification,
                   ret |-> validate(notification, now)]>>
    /\ UNCHANGED <<notification, dispatchVars>>

\* notification.is_valid()
IsValid ==
    /\ calls = <<>>
    /\ request.kind = "none"
    /\ calls' = <<[op |-> "is_valid", self |-> notification,
                   ret |-> is_valid(notification, now)]>>
    /\ UNCHANGED <<notification, dispatchVars>>

\* notification.get_target_count()
GetTargetCount ==
    /\ calls = <<>>
    /\ request.kind = "none"
    /\ calls' = <<[op |-> "get_target_count", self |-> notification,
                   ret |-> get_target_count(notification)]>>
    /\ UNCHANGED <<notification, dispatchVars>>

\* domain_service.should_retry_notification(notification, max_retries)
ShouldRetry(max_retries) ==
    /\ calls = <<>>
    /\ request.kind = "none"
    /\ calls' = <<[op |-> "should_retry_notification",
                   self |-> notification, max_retries |-> max_retries,
                   ret |-> should_retry_notification(notification,
                                                     max_retries, now)]>>
    /\ UNCHANGED <<notification, dispatchVars>>

\* domain_service.create_notification(...)
CreateNotification ==
    /\ calls = <<>>
    /\ request.kind = "create_notification"
    /\ LET ret == create_notification(EntityId(0),
                      request.notification_type, request.title,
                      request.body, request.data, request.device_tokens,
                      request.topic, request.scheduled_at, now)
       IN  /\ calls' = <<[op |-> "create_notification", ret |-> ret]>>
           /\ notification' = ret.notification
    /\ UNCHANGED dispatchVars

\* DeviceTokenList(tokens=..., max_tokens=...)
ConstructDeviceTokenList ==
    /\ calls = <<>>
    /\ request.kind = "DeviceTokenList"
    /\ calls' = <<[op |-> "DeviceTokenList",
                   ret |-> DeviceTokenList(request.tokens,
                                           request.max_tokens)]>>
    /\ UNCHANGED <<notification, dispatchVars>>

\* TopicSubscription(topic=..., device_tokens=...): raises, or holds one of
\* the lists list(set(v)) can produce
ConstructTopicSubscription ==
    /\ calls = <<>>
    /\ request.kind = "TopicSubscription"
    /\ LET error == subscription_validate_device_tokens(request.device_tokens)
       IN  \E u \in IF error = None
                    THEN unique_tokens(request.device_tokens) ELSE {<<>>} :
               calls' = <<[op |-> "TopicSubscription", error |-> error,
                           device_tokens |-> u]>>
    /\ UNCHANGED <<notification, dispatchVars>>

\* notification.to_fcm_message()
ToFcmMessage ==
    /\ calls = <<>>
    /\ request.kind = "to_fcm_message"
    /\ calls' = <<[op |-> "to_fcm_message", self |-> notification,
                   ret |-> to_fcm_message(notification)]>>
    /\ UNCHANGED <<notification, dispatchVars>>

NextDomain ==
    \/ Validate
    \/ IsValid
    \/ GetTargetCount
    \/ \E max_retries \in 0..(MaxStep + 1) : ShouldRetry(max_retries)
    \/ CreateNotification
    \/ ConstructDeviceTokenList
    \/ ConstructTopicSubscription
    \/ ToFcmMessage

SpecDomain == InitDomain /\ [][NextDomain]_vars

\* ---- domain claims
\* the values of a sequence
Range(seq) == {seq[k] : k \in DOMAIN seq}

\* the number of targeting fields that are set
TargetsSet(device_tokens, topic) ==
    (IF device_tokens # <<>> THEN 1 ELSE 0) + (IF topic # None THEN 1 ELSE 0)

\* title and body satisfy the template of the notification's type
ContentSatisfiesPolicy(n) ==
    n.notification_type \notin {"silent", "custom"} =>
        n.title \notin {None, ""} /\ n.body \notin {None, ""}

\* C14: validate() reports every violated rule, not only the first: the
\* 'must target either' message appears exactly when no target is set, the
\* 'cannot target both' message exactly when both are, an 'alert' with no
\* title gets the 'requires a title' message and with no body the 'requires a
\* body' message (both when both are missing); with exactly one target,
\* title and body as the type requires and no scheduled_at / expires_at the
\* list is empty and is_valid() is true.
C14_ValidateReportsEveryRule ==
    \A i \in DOMAIN calls :
        LET n == calls[i].self
            ret == calls[i].ret
            clean == /\ TargetsSet(n.device_tokens, n.topic) = 1
                     /\ ContentSatisfiesPolicy(n)
                     /\ n.scheduled_at = NoTime
                     /\ n.expires_at = NoTime
        IN  /\ calls[i].op = "validate" =>
                /\ TargetsSet(n.device_tokens, n.topic) = 0
                      <=> "must target either device tokens or a topic"
                             \in Range(ret)
                /\ TargetsSet(n.device_tokens, n.topic) = 2
                      <=> "cannot target both device tokens and topic"
                             \in Range(ret)
                /\ (n.notification_type = "alert" /\ n.title \in {None, ""})
                      => "requires a title" \in Range(ret)
                /\ (n.notification_type = "alert" /\ n.body \in {None, ""})
                      => "requires a body" \in Range(ret)
                /\ clean => ret = <<>>
            /\ calls[i].op = "is_valid" => (clean => ret = TRUE)

\* validate() called on an 'alert' with no target, no title and no body
\* returned the three messages
C14_Witness ==
    /\ Len(calls) = 1
    /\ calls[1].op = "validate"
    /\ calls[1].self.notification_type = "alert"
    /\ calls[1].self.device_tokens = <<>>
    /\ calls[1].self.topic = None
    /\ calls[1].self.title = None
    /\ calls[1].self.body = None
    /\ calls[1].ret = <<"must target either device tokens or a topic",
                         "requires a title", "requires a body">>

\* the notification create_notification builds when exactly one target is
\* given
Constructed(a) ==
    [NewNotification(EntityId(0), a.notification_type, a.title, a.body,
                     a.device_tokens, a.topic)
        EXCEPT !.data = a.data, !.scheduled_at = a.scheduled_at]

\* C15: create_notification raises a targeting error when neither or both
\* of device_tokens and topic are given; raises one validation error whose
\* message joins every violated rule when validate() is non-empty; otherwise
\* returns a notification with exactly one target, validate() == [], status
\* 'pending', sent_count 0 and failed_count 0. It never returns a
\* notification that is not valid.
C15_CreateNotification ==
    \A i \in DOMAIN calls :
        calls[i].op = "create_notification" =>
            LET ret == calls[i].ret
                targets == TargetsSet(request.device_tokens, request.topic)
                errors == validate(Constructed(request), now)
            IN  /\ targets = 0 =>
                    /\ ret.raised
                    /\ ret.error
                          = <<"Must specify either device tokens or topic">>
                /\ targets = 2 =>
                    /\ ret.raised
                    /\ ret.error
                          = <<"Cannot specify both device tokens and topic">>
                /\ (targets = 1 /\ errors # <<>>) =>
                    /\ ret.raised
                    /\ ret.error = <<"Invalid notification">> \o errors
                /\ (targets = 1 /\ errors = <<>>) =>
                    /\ ~ret.raised
                    /\ ret.notification = Constructed(request)
                    /\ TargetsSet(ret.notification.device_tokens,
                                  ret.notification.topic) = 1
                    /\ ret.notification.status = "pending"
                    /\ ret.notification.sent_count = 0
                    /\ ret.notification.failed_count = 0
                /\ ~ret.raised =>
                    /\ validate(ret.notification, now) = <<>>
                    /\ is_valid(ret.notification, now)

\* create_notification for an 'alert' to two device tokens with no title and
\* no body raised one error naming both rules
C15_Witness ==
    /\ Len(calls) = 1
    /\ calls[1].op = "create_notification"
    /\ request.device_tokens = <<"a", "b">>
    /\ request.topic = None
    /\ request.notification_type = "alert"
    /\ calls[1].ret.raised
    /\ calls[1].ret.error = <<"Invalid notification", "requires a title",
                               "requires a body">>

\* C16: should_retry_notification(n, max_retries) is true exactly when
\* n.status is 'failed', n.failed_count < max_retries and n.expires_at is
\* unset or not earlier than now; the notification is left as it was.
C16_ShouldRetry ==
    \A i \in DOMAIN calls :
        calls[i].op = "should_retry_notification" =>
            LET n == calls[i].self
            IN  /\ calls[i].ret
                      = (/\ n.status = "failed"
                         /\ n.failed_count < calls[i].max_retries
                         /\ \/ n.expires_at = NoTime
                            \/ ~(n.expires_at[1] < now))
                /\ notification = n

\* a failed notification one failure short of max_retries, expiring at this
\* very instant, is retried
C16_Witness ==
    /\ Len(calls) = 1
    /\ calls[1].op = "should_retry_notification"
    /\ calls[1].self.status = "failed"
    /\ calls[1].self.failed_count = calls[1].max_retries - 1
    /\ calls[1].self.expires_at = <<now>>
    /\ calls[1].ret = TRUE

\* C17: constructing a DeviceTokenList succeeds exactly when the list is
\* non-empty, has no repeated value and is no longer than the max_tokens the
\* caller passes: a longer list is rejected with the max-exceeded error, a
\* repeated value with the duplicate-token error.
C17_DeviceTokenListInvariants ==
    \A i \in DOMAIN calls :
        calls[i].op = "DeviceTokenList" =>
            LET tokens == request.tokens
            IN  /\ calls[i].ret = None
                      <=> /\ tokens # <<>>
                          /\ Len(tokens) = Cardinality(Range(tokens))
                          /\ Len(tokens) <= request.max_tokens
                /\ Len(tokens) > request.max_tokens =>
                      calls[i].ret
                         = "Maximum max_tokens tokens allowed per request"
                /\ (/\ tokens # <<>>
                    /\ Len(tokens) <= request.max_tokens
                    /\ Len(tokens) # Cardinality(Range(tokens))) =>
                      calls[i].ret
                         = "Duplicate device tokens are not allowed"

\* C18: on the topic-subscription path a token list of at most 1000 entries
\* with repeated values is accepted, and the resulting list holds each
\* distinct value exactly once.
C18_SubscriptionDeduplicates ==
    \A i \in DOMAIN calls :
        (/\ calls[i].op = "TopicSubscription"
         /\ request.device_tokens # <<>>
         /\ Len(request.device_tokens) <= 1000
         /\ Len(request.device_tokens)
               # Cardinality(Range(request.device_tokens))) =>
            /\ calls[i].error = None
            /\ Range(calls[i].device_tokens) = Range(request.device_tokens)
            /\ Len(calls[i].device_tokens)
                  = Cardinality(Range(request.device_tokens))

\* ---- target count and error outcome claims
\* C19: get_target_count() is the number of device tokens of a
\* device-targeted notification and 1 for a topic-targeted one, and the
\* target_count / total_targets reported for a dispatch is this requested
\* count whatever number of targets succeeded or failed: in the result and
\* response of /send, and in the response of every batch item that was
\* dispatched.
C19_TargetCountIsRequested ==
    /\ notification.device_tokens # <<>> =>
          get_target_count(notification) = Len(notification.device_tokens)
    /\ (notification.device_tokens = <<>> /\ notification.topic # None) =>
          get_target_count(notification) = 1
    /\ request.kind = "send" =>
          /\ \A k \in DOMAIN results :
                results[k].target_count = Len(request.device_tokens)
          /\ response.kind = "SendNotificationResponse" =>
                response.total_targets = Len(request.device_tokens)
    /\ request.kind = "batch" =>
          \A k \in DOMAIN results :
              outcomes[k] # "invalid" =>
                  results[k].total_targets
                     = Len(request.notifications[k].device_tokens)

\* C20: a request rejected because a value object is malformed or because
\* validate() reports violations is answered with a 4xx outcome; the 500
\* outcome is never the answer to a validation failure.
C20_ValidationFailureIsClientError ==
    (/\ pc = "done"
     /\ \/ request.kind = "send" /\ DeviceRequestFails(request)
        \/ request.kind = "topic" /\ TopicRequestFails(request)) =>
        /\ response.kind = "error"
        /\ response.status_code \in 400..499

\* ------------------------------------------------ gateway failures (C21)
\* the gateway call of the running dispatch has just returned a failure
GatewayFailed == pc = "set" /\ ~result.success

\* the result of a gateway call that raised, as the dispatch reports it
C21_Reported ==
    GatewayFailed =>
        /\ result.error \in ErrorMessages
        /\ status = "failed"
        /\ notification_status.status = "failed"
        /\ notification_status.error_message = result.error
        /\ request.kind = "send" =>
              /\ results[1].status = "failed"
              /\ results[1].error_message = result.error

\* a dispatch waiting for the gateway goes on to its status write, whatever
\* the gateway call does; it does not answer at that step
C21_NoServerError ==
    pc = "gateway" => (pc' = "set" /\ response' = response)

\* the response of a /send or of a batch item whose gateway call raised
C21_Response ==
    /\ (/\ request.kind = "send"
        /\ response.kind = "SendNotificationResponse"
        /\ ~result.success) =>
           /\ response.results[1].status = "failed"
           /\ response.results[1].error_message = result.error
    /\ request.kind = "batch" =>
           \A k \in DOMAIN outcomes :
               outcomes[k] = "gateway_failed" =>
                   /\ results[k].results[1].status = "failed"
                   /\ results[k].results[1].error_message \in ErrorMessages

\* C21: a gateway call that raises (a FirebaseError or any other exception)
\* never propagates out of the gateway client or the dispatch handler: the
\* client returns a result with success = false and the error string, and
\* the dispatch goes on with status 'failed' and that error_message instead
\* of answering with a server error.
C21_GatewayErrorsAreResults ==
    [](C21_Reported /\ C21_Response) /\ [][C21_NoServerError]_vars

\* a /send to one device whose SDK call raised has returned its response:
\* status failed, the error of the exception as error_message
C21_Witness ==
    /\ pc = "done"
    /\ request.kind = "send"
    /\ Len(request.device_tokens) = 1
    /\ response.kind = "SendNotificationResponse"
    /\ ~result.success
    /\ response.results[1].status = "failed"
    /\ response.results[1].error_message \in ErrorMessages

\* ------------------------------------------------- the status record (C23)
\* the status write of the running /send or /topic dispatch has succeeded
RecordWritten ==
    /\ request.kind \in {"send", "topic"}
    /\ Positions({"publish"}) # {}

\* C23: a /send or /topic dispatch whose gateway call completed issues
\* exactly one status write; once the write has succeeded there is exactly
\* one record, under notification:<notification id> with an expiry of 3600
\* seconds, carrying the status (and for a device send the sent_count and
\* failed_count) of the response and of the event published afterwards;
\* the record is there whether or not the publish succeeds.
C23_OneStatusRecord ==
    /\ (request.kind \in {"send", "topic"} /\ Returned) =>
          /\ Cardinality(Positions({"set"})) = 1
          /\ Len(store) <= 1
    /\ RecordWritten =>
          /\ Len(store) = 1
          /\ store[1].key = StatusKey(HandlerId)
          /\ store[1].ex = 3600
          /\ store[1].value.status = status
          /\ request.kind = "send" =>
                /\ store[1].value.sent_count = sent_count
                /\ store[1].value.failed_count = failed_count
          /\ response.kind = "SendNotificationResponse" =>
                /\ response.notification_id = HandlerId
                /\ response.results[1].status = store[1].value.status
                /\ response.results[1].sent_count
                      = store[1].value.sent_count
                /\ response.results[1].failed_count
                      = store[1].value.failed_count
                /\ response.total_sent = store[1].value.sent_count
                /\ response.total_failed = store[1].value.failed_count
          /\ response.kind = "TopicNotificationResponse" =>
                /\ response.notification_id = HandlerId
                /\ response.success = (store[1].value.status = "success")
          /\ Len(events) <= 1
          /\ events # <<>> => events[1].message = store[1].value

\* a multicast /send with a partial outcome whose publish raised: the
\* request is answered with a server error and the record is in the store
C23_Witness ==
    /\ pc = "done"
    /\ request.kind = "send"
    /\ response = HTTPException500
    /\ Positions({"publish"}) # {}
    /\ events = <<>>
    /\ Len(store) = 1
    /\ store[1].key = StatusKey(HandlerId)
    /\ store[1].value.status = "partial"

\* ------------------------------------------- the scheduling buffer (C26)
\* C26: validate() reports the 'Scheduled time cannot be in the past'
\* violation exactly when scheduled_at is set and is earlier than now minus
\* 300 seconds, whatever the seconds-within-the-minute of now.
C26_BufferIsFiveMinutes ==
    \A k \in DOMAIN calls :
        calls[k].op = "validate" =>
            (("Scheduled time cannot be in the past (with 5-minute buffer)"
                 \in Range(calls[k].ret))
             <=> (/\ calls[k].self.scheduled_at # NoTime
                  /\ calls[k].self.scheduled_at[1] < now - 300))

\* ------------------------------------- requests without a schedule (C27)
\* the request is rejected while its domain objects are built although the
\* same request with no schedule at all would have been accepted
RejectedForSchedule(req) ==
    IF req.kind = "topic"
    THEN /\ TopicRequestFails(req)
         /\ ~TopicRequestFails([req EXCEPT !.scheduled_at = NoTime])
    ELSE /\ DeviceRequestFails(req)
         /\ ~DeviceRequestFails([req EXCEPT !.scheduled_at = NoTime])

\* C27: a /send, /topic or batch item request that omits scheduled_at is
\* never rejected for its schedule, however long the process has been
\* running when the request arrives.
C27_OmittedScheduleAccepted ==
    /\ (/\ pc = "done"
        /\ request.kind \in {"send", "topic"}
        /\ request.scheduled_at = scheduled_at_default
        /\ response = HTTPException500
        /\ log = <<>>) => ~RejectedForSchedule(request)
    /\ request.kind = "batch" =>
          \A k \in DOMAIN outcomes :
              (/\ outcomes[k] = "invalid"
               /\ request.notifications[k].scheduled_at
                     = scheduled_at_default) =>
                  ~RejectedForSchedule(request.notifications[k])

\* ------------------------------------------ counts and identifiers
\* the batch items that went through the gateway call and the status write
ProcessedItems ==
    {k \in DOMAIN outcomes : outcomes[k] \in {"sent", "gateway_failed"}}

\* C28: in every device-targeted dispatch result, of a /send and of each
\* processed batch item, sent_count + failed_count = target_count (the
\* gateway's multicast counts sum to the number of tokens): a failed
\* single-device dispatch reports failed_count = 1, an outright-failed
\* multicast over N tokens failed_count = N.
C28_CountsSumToTargets ==
    /\ response.kind = "SendNotificationResponse" =>
          response.results[1].sent_count + response.results[1].failed_count
              = response.results[1].target_count
    /\ request.kind = "batch" =>
          \A k \in ProcessedItems :
              results[k].results[1].sent_count
                    + results[k].results[1].failed_count
                  = results[k].results[1].target_count

\* C30: the top-level notification_id of every dispatch response, of a
\* /send, of a /topic and of each processed batch item, is the id under
\* which the status record of that dispatch was written.
C30_ResponseIdIsRecordKey ==
    /\ response.kind \in {"SendNotificationResponse",
                           "TopicNotificationResponse"} =>
          \E j \in DOMAIN store :
              store[j].key = StatusKey(response.notification_id)
    /\ request.kind = "batch" =>
          \A k \in ProcessedItems :
              \E j \in DOMAIN store :
                  store[j].key = StatusKey(results[k].notification_id)

\* ------------------------------------------------ the FCM message (C22)
\* C22: for a device-targeted notification with a non-empty priority
\* to_fcm_message() returns a message (it does not raise) whose token is the
\* first device token, whose android.priority is the notification priority
\* and whose apns.headers['apns-priority'] is '10' for priority 'high' and
\* '5' otherwise; collapse_key and ttl (as '<ttl>s') are under android when
\* set.
C22_FcmMessage ==
    \A k \in DOMAIN calls :
        (/\ calls[k].op = "to_fcm_message"
         /\ calls[k].self.device_tokens # <<>>
         /\ ~Falsy(calls[k].self.priority)) =>
            /\ ~calls[k].ret.raised
            /\ LET n == calls[k].self
                   m == calls[k].ret.message
               IN  /\ m["token"] = n.device_tokens[1]
                   /\ m["android"]["priority"] = n.priority
                   /\ m["apns"]["headers"]["apns-priority"]
                         = IF n.priority = "high" THEN "10" ELSE "5"
                   /\ ~Falsy(n.collapse_key) =>
                         m["android"]["collapse_key"] = n.collapse_key
                   /\ (n.ttl # <<>> /\ n.ttl[1] # 0) =>
                         m["android"]["ttl"] = FormatTtl(n.ttl[1])

\* ------------------------------------- GET /status/{notification_id}
\* raise HTTPException(status_code=404, detail="Notification not found")
HTTPException404 == [kind |-> "error", status_code |-> 404]

\* the ids a client may ask for: ids of responses and records, and one that
\* no dispatch ever used
QueryIds == {HandlerId, EntityId(1), ResponseId(1), <<"unknown", 0>>}

\* the positions of the records written under a key
RecordsUnder(st, key) == {j \in DOMAIN st : st[j].key = key}

\* ValkeyClient.get, when the command succeeds: <<>> for None (no such key,
\* or the key's expiry has passed), else the value written last
valkey_get(st, key, expired) ==
    LET written == RecordsUnder(st, key)
    IN  IF written = {} \/ expired THEN <<>>
        ELSE <<st[CHOOSE j \in written : \A i \in written : i <= j].value>>

\* the body of the handler's try block, given what the store read did
status_try(read) ==
    IF read.raised THEN [raised |-> TRUE, exception |-> read.exception]
    ELSE IF read.status_data # <<>>
    THEN [raised |-> FALSE, value |-> read.status_data[1]]
    ELSE [raised |-> TRUE, exception |-> HTTPException404]

\* get_notification_status: `except Exception` around the try block turns
\* whatever was raised in it into HTTPException(status_code=500)
get_notification_status(read) ==
    LET tried == status_try(read)
    IN  IF tried.raised THEN HTTPException500
        ELSE [kind |-> "status", body |-> tried.value]

\* a status query arrives; the handler suspends in valkey_client.get
QueryStart(notification_id) ==
    /\ query = IdleQuery
    /\ query' = [pc |-> "get", notification_id |-> notification_id]
    /\ UNCHANGED <<handlerVars, tasks, client>>

\* the store read returns (the record, or None) or raises; the handler
\* answers
QueryGetReturns(ok, expired) ==
    /\ query.pc = "get"
    /\ LET read == IF ok
                   THEN [raised |-> FALSE,
                         status_data |->
                             valkey_get(store,
                                 StatusKey(query.notification_id), expired)]
                   ELSE [raised |-> TRUE, exception |-> "RedisError"]
       IN  query' = [pc |-> "done",
                     notification_id |-> query.notification_id,
                     read |-> read,
                     response |-> get_notification_status(read)]
    /\ UNCHANGED <<handlerVars, tasks, client>>

NextQuery ==
    \/ \E notification_id \in QueryIds : QueryStart(notification_id)
    \/ \E ok \in BOOLEAN, expired \in BOOLEAN : QueryGetReturns(ok, expired)

\* one dispatch and one status query, in any interleaving
NextStatus ==
    \/ NextDispatch
    \/ NextQuery

SpecStatus == Init /\ [][NextStatus]_vars

\* C29: a status query for an id with no stored record (never written, or
\* expired) gets the not-found outcome 404, distinct from the 500 of a store
\* read that failed; a query for an id with a stored record gets the
\* record.
C29_NotFoundIsNot500 ==
    query.pc = "done" =>
        /\ query.read.raised => query.response = HTTPException500
        /\ (~query.read.raised /\ query.read.status_data = <<>>) =>
              query.response = HTTPException404
        /\ (~query.read.raised /\ query.read.status_data # <<>>) =>
              query.response
                  = [kind |-> "status", body |-> query.read.status_data[1]]

\* ----------------------------------------------- ValkeyClient (one client)
\* One ValkeyClient used by one coroutine at a time (a handler gets its own
\* client and awaits each operation). `client.redis` is None, or the
\* connection object made by the latest redis.from_url, "open" or "closed";
\* `log` holds the steps of the operation in progress; what the server
\* does at each ping, connect and command is an input.
StoreOps ==
    {"publish", "subscribe", "lpush", "rpop", "llen", "xadd", "xread",
     "set", "get", "delete", "exists", "incr", "expire"}

\* the operation returned / raised
StoreReturned == [kind |-> "returned"]
StoreRaised == [kind |-> "raised"]

\* is_connected before its await: `not self._redis or not self._connected`
not_redis_or_not_connected(c) == c.redis = None \/ ~c.connected

\* mutant: an operation issues its command whatever the liveness check said
after_is_connected_no_connect(live) == "command"

\* `if not await self.is_connected(): await self.connect()`: where the
\* operation goes after the liveness check
after_is_connected(live) == IF live THEN "command" ELSE "connect"

\* connect() up to its await: self._redis = redis.from_url(...)
connect_begins(c) == [c EXCEPT !.redis = "open"]

\* the steps from the answer of the liveness check to the next await
StoreProceeds(c, live, steps) ==
    /\ pc' = after_is_connected(live)
    /\ client' = IF after_is_connected(live) = "connect"
                 THEN connect_begins(c) ELSE c
    /\ log' = log \o steps \o <<after_is_connected(live)>>

\* an operation is called: is_connected answers False from the fields, or
\* awaits a ping
StoreCall(op) ==
    /\ pc \in {"idle", "done"}
    /\ request' = [kind |-> "store", op |-> op]
    /\ response' = [kind |-> "none"]
    /\ IF not_redis_or_not_connected(client)
       THEN /\ pc' = after_is_connected(FALSE)
            /\ client' = IF after_is_connected(FALSE) = "connect"
                         THEN connect_begins(client) ELSE client
            /\ log' = <<"not_live", after_is_connected(FALSE)>>
       ELSE /\ pc' = "ping"
            /\ log' = <<"ping">>
            /\ UNCHANGED client
    /\ UNCHANGED <<notification, calls, now, tasks, query, result,
                   sent_count, failed_count, status, results, store, events,
                   idx, successful_count, notification_status, outcomes>>

\* the ping of is_connected returns or raises
StorePingReturns(ok) ==
    /\ pc = "ping"
    /\ IF ok
       THEN StoreProceeds(client, TRUE, <<"ping_ok">>)
       ELSE StoreProceeds([client EXCEPT !.connected = FALSE], FALSE,
                          <<"ping_failed">>)
    /\ UNCHANGED <<notification, calls, now, tasks, query, request,
                   response, result, sent_count, failed_count, status,
                   results, store, events, idx, successful_count,
                   notification_status, outcomes>>

\* the ping of connect returns, and the operation issues its command, or
\* raises, and the operation raises
StoreConnectReturns(ok) ==
    /\ pc = "connect"
    /\ IF ok
       THEN /\ client' = [client EXCEPT !.connected = TRUE]
            /\ log' = log \o <<"connect_ok", "command">>
            /\ pc' = "command"
            /\ UNCHANGED response
       ELSE /\ client' = [client EXCEPT !.connected = FALSE]
            /\ log' = Append(log, "connect_failed")
            /\ pc' = "done"
            /\ response' = StoreRaised
    /\ UNCHANGED <<notification, calls, now, tasks, query, request, result,
                   sent_count, failed_count, status, results, store, events,
                   idx, successful_count, notification_status, outcomes>>

\* the command returns or raises; so does the operation
StoreCommandReturns(ok) ==
    /\ pc = "command"
    /\ request.kind = "store"
    /\ log' = Append(log, IF ok THEN "command_ok" ELSE "command_failed")
    /\ response' = IF ok THEN StoreReturned ELSE StoreRaised
    /\ pc' = "done"
    /\ UNCHANGED <<notification, calls, now, tasks, query, client, request,
                   result, sent_count, failed_count, status, results, store,
                   events, idx, successful_count, notification_status,
                   outcomes>>

\* disconnect()
StoreDisconnect ==
    /\ pc \in {"idle", "done"}
    /\ client.redis # None
    /\ client' = [client EXCEPT !.redis = "closed", !.connected = FALSE]
    /\ UNCHANGED handlerVars
    /\ UNCHANGED <<tasks, query>>

NextStore ==
    \/ \E op \in StoreOps : StoreCall(op)
    \/ \E ok \in BOOLEAN : StorePingReturns(ok)
    \/ \E ok \in BOOLEAN : StoreConnectReturns(ok)
    \/ \E ok \in BOOLEAN : StoreCommandReturns(ok)
    \/ StoreDisconnect

SpecStore == Init /\ [][NextStore]_vars

\* the liveness check of the operation in progress failed
LivenessFailed ==
    \E k \in DOMAIN log : log[k] \in {"not_live", "ping_failed"}

\* C25: every store operation, in any connection state, first checks
\* liveness and connects when the client is not live; no command is issued
\* after a failed liveness check without a successful connect in between;
\* if the connect fails the operation raises without issuing the command.
C25_ConnectBeforeCommand ==
    (request.kind = "store") =>
        /\ log[1] \in {"not_live", "ping"}
        /\ \A k \in DOMAIN log :
              /\ log[k] \in {"not_live", "ping_failed"} =>
                    (k < Len(log) /\ log[k + 1] = "connect")
              /\ log[k] = "command" =>
                    (k > 1 /\ log[k - 1] \in {"ping_ok", "connect_ok"})
              /\ log[k] = "connect_failed" =>
                    (/\ k = Len(log)
                     /\ pc = "done"
                     /\ response = StoreRaised)
        /\ (LivenessFailed /\ Positions({"command"}) # {}) =>
              Positions({"connect_ok"}) # {}
        /\ pc = "command" => (client.redis = "open" /\ client.connected)

\* the connection was lost since the last use: a set() found the ping
\* failing, connected again and ran its command
C25_Witness ==
    /\ request.kind = "store"
    /\ request.op = "set"
    /\ pc = "done"
    /\ log = <<"ping", "ping_failed", "connect", "connect_ok", "command",
               "command_ok">>
    /\ response = StoreReturned

\* -------------------------------------- concurrent /send requests (C24)
\* NumTasks coroutines of send_notification on one event loop. Each has its
\* own frame (tasks[t]: its locals, its entity, its clients); they share
\* the store and the event channel. A coroutine runs from one await to the
\* next without interruption; the others may run at each await.
ConcurrentRequests ==
    {r \in SendRequests :
        /\ r.device_tokens \in {<<"a">>, <<"a", "b">>}
        /\ r.notification_type = "alert"
        /\ r.body = "World"
        /\ r.scheduled_at = NoTime}

\* what the SDK call of a concurrent request does: returns, or raises
ConcurrentSdkOutcomes ==
    {sdk \in SdkSendOutcomes \cup SdkMulticastOutcomes(2) :
        sdk.kind \in {"ok", "FirebaseError"}}

\* mutant: every request draws the same notification id
TaskHandlerId_shared(t) == <<"handler", 0>>

\* notification_id = str(uuid.uuid4()) of the t-th request
TaskHandlerId(t) == <<"handler", t>>

\* send_notification of task t up to its first await
TaskStart(t, req) ==
    /\ tasks[t].pc = "idle"
    /\ LET tokens == req.device_tokens
           created == create_notification(EntityId(t),
                          req.notification_type, req.title, req.body,
                          EmptyDict, tokens, None, req.scheduled_at, now)
       IN  tasks' = [tasks EXCEPT ![t] =
              IF \/ ~SendRequestParses(tokens)
                 \/ \E k \in DOMAIN tokens : ~DeviceTokenValid(tokens[k])
                 \/ ~DeviceTokenListValid(tokens)
                 \/ created.raised
              THEN [pc |-> "done", request |-> req,
                    response |-> IF ~SendRequestParses(tokens)
                                 THEN RequestValidationError
                                 ELSE HTTPException500]
              ELSE [pc |-> "gateway", request |-> req,
                    notification_id |-> TaskHandlerId(t),
                    notification |-> created.notification,
                    response |-> [kind |-> "none"]]]
    /\ UNCHANGED <<handlerVars, client, query>>

\* send_notification of task t from the gateway's answer to the status
\* write
TaskGatewayReturns(t, sdk) ==
    /\ tasks[t].pc = "gateway"
    /\ LET me == tasks[t]
           device_token_values == me.notification.device_tokens
           N == Len(device_token_values)
           res == IF N = 1
                  THEN send_to_device(device_token_values[1], sdk)
                  ELSE send_to_multiple_devices(device_token_values, sdk)
           out == IF N = 1 THEN SingleOutcome(me.notification, res)
                  ELSE MulticastOutcome(me.notification, res, N)
       IN  /\ sdk \in SdkOutcomesFor(N) \cap ConcurrentSdkOutcomes
           /\ tasks' = [tasks EXCEPT ![t] =
                 [pc |-> "set", request |-> me.request,
                  notification_id |-> me.notification_id,
                  sdk |-> sdk,
                  result |-> res,
                  notification |-> out.notification,
                  sent_count |-> out.sent_count,
                  failed_count |-> out.failed_count,
                  status |-> out.status,
                  results |-> <<NotificationResult(me.notification_id,
                                    out.status, out.sent_count,
                                    out.failed_count, Get(res, "error"),
                                    IF N = 1 THEN 1 ELSE N)>>,
                  notification_status |->
                     [notification_id |-> me.notification_id,
                      type |-> me.notification.notification_type,
                      target_count |-> get_target_count(out.notification),
                      sent_count |-> out.sent_count,
                      failed_count |-> out.failed_count,
                      status |-> out.status,
                      error_message |-> Get(res, "error"),
                      message_id |-> Get(res, "message_id")],
                  written |-> FALSE,
                  response |-> [kind |-> "none"]]]
    /\ UNCHANGED <<handlerVars, client, query>>

\* send_notification of task t from the status write's answer to the
\* publish
TaskSetReturns(t, ok) ==
    /\ tasks[t].pc = "set"
    /\ IF ok
       THEN /\ store' = valkey_set(store,
                   StatusKey(tasks[t].notification_status.notification_id),
                   tasks[t].notification_status, 3600)
            /\ tasks' = [tasks EXCEPT ![t].pc = "publish",
                                      ![t].written = TRUE]
       ELSE /\ tasks' = [tasks EXCEPT ![t].pc = "done",
                                      ![t].response = HTTPException500]
            /\ UNCHANGED store
    /\ UNCHANGED <<notification, calls, now, client, query, pc, request,
                   result, sent_count, failed_count, status, results,
                   response, events, log, idx, successful_count,
                   notification_status, outcomes>>

\* send_notification of task t from the publish's answer to its return
TaskPublishReturns(t, ok) ==
    /\ tasks[t].pc = "publish"
    /\ LET me == tasks[t]
       IN  IF ok
           THEN /\ events' = valkey_publish(events, "notification.sent",
                                            me.notification_status)
                /\ tasks' = [tasks EXCEPT ![t].pc = "done",
                      ![t].response =
                          [kind |-> "SendNotificationResponse",
                           success |-> ResponseSuccess(me.status),
                           notification_id |-> me.notification_id,
                           results |-> me.results,
                           total_sent |-> me.sent_count,
                           total_failed |-> me.failed_count,
                           total_targets |->
                               get_target_count(me.notification)]]
           ELSE /\ tasks' = [tasks EXCEPT ![t].pc = "done",
                                          ![t].response = HTTPException500]
                /\ UNCHANGED events
    /\ UNCHANGED <<notification, calls, now, client, query, pc, request,
                   result, sent_count, failed_count, status, results,
                   response, store, log, idx, successful_count,
                   notification_status, outcomes>>

NextConcurrent ==
    \/ \E t \in Tasks, req \in ConcurrentRequests : TaskStart(t, req)
    \/ \E t \in Tasks, sdk \in ConcurrentSdkOutcomes :
          TaskGatewayReturns(t, sdk)
    \/ \E t \in Tasks, ok \in BOOLEAN : TaskSetReturns(t, ok)
    \/ \E t \in Tasks, ok \in BOOLEAN : TaskPublishReturns(t, ok)

\* no request of ConcurrentRequests carries a schedule: one clock value
InitConcurrent ==
    /\ Init
    /\ now = 30

SpecConcurrent == InitConcurrent /\ [][NextConcurrent]_vars

\* what a dispatch of `req` reports when its own gateway call did `sdk`
OwnStatus(req, sdk) ==
    IF sdk.kind # "ok" THEN "failed"
    ELSE IF Len(req.device_tokens) > 1 /\ sdk.failure_count > 0
    THEN "partial" ELSE "success"
OwnSent(req, sdk) ==
    IF sdk.kind # "ok" THEN 0
    ELSE IF Len(req.device_tokens) = 1 THEN 1 ELSE sdk.success_count
OwnFailed(req, sdk) ==
    IF sdk.kind # "ok" THEN Len(req.device_tokens)
    ELSE IF Len(req.device_tokens) = 1 THEN 0 ELSE sdk.failure_count
OwnError(sdk) == IF sdk.kind # "ok" THEN sdk.error ELSE None

\* the status record of task t, as its own request and gateway answer
\* determine it
OwnRecord(t) ==
    [notification_id |-> TaskHandlerId(t),
     type |-> tasks[t].request.notification_type,
     target_count |-> Len(tasks[t].request.device_tokens),
     sent_count |-> OwnSent(tasks[t].request, tasks[t].sdk),
     failed_count |-> OwnFailed(tasks[t].request, tasks[t].sdk),
     status |-> OwnStatus(tasks[t].request, tasks[t].sdk),
     error_message |-> OwnError(tasks[t].sdk),
     message_id |-> IF tasks[t].sdk.kind = "ok"
                       /\ Len(tasks[t].request.device_tokens) = 1
                    THEN tasks[t].sdk.message_id ELSE None]

\* the gateway call of task t has returned
TaskReturned(t) == "sdk" \in DOMAIN tasks[t]

\* C24: in any interleaving of concurrent dispatches at their gateway and
\* store suspension points each dispatch works on its own entity and
\* counters: its result, its persisted record and its published event are
\* what its own request and its own gateway answer determine, whatever the
\* other dispatches do.
C24_DispatchesAreIsolated ==
    \A t \in Tasks :
        TaskReturned(t) =>
            LET me == tasks[t]
                key == StatusKey(TaskHandlerId(t))
                mine == {j \in DOMAIN events :
                            events[j].message.notification_id
                                = TaskHandlerId(t)}
            IN  /\ me.notification.id = EntityId(t)
                /\ me.notification.device_tokens = me.request.device_tokens
                /\ me.notification.sent_count = OwnSent(me.request, me.sdk)
                /\ me.notification_status = OwnRecord(t)
                /\ me.results[1].status = OwnStatus(me.request, me.sdk)
                /\ me.results[1].sent_count = OwnSent(me.request, me.sdk)
                /\ me.results[1].failed_count
                      = OwnFailed(me.request, me.sdk)
                /\ Cardinality(RecordsUnder(store, key))
                      = IF me.written THEN 1 ELSE 0
                /\ me.written =>
                      valkey_get(store, key, FALSE) = <<OwnRecord(t)>>
                /\ \A j \in mine : events[j].message = OwnRecord(t)
                /\ me.response.kind = "SendNotificationResponse" =>
                      /\ Cardinality(mine) = 1
                      /\ me.response.notification_id = TaskHandlerId(t)
                      /\ me.response.results = me.results
                      /\ me.response.total_sent
                            = OwnSent(me.request, me.sdk)
                      /\ me.response.total_failed
                            = OwnFailed(me.request, me.sdk)

\* two dispatches ran interleaved (the second one's gateway call returned
\* and its record was written while the first waited for its own write) and
\* ended differently: one failed on one device, one partial on two
C24_Witness ==
    /\ tasks[1].pc = "done"
    /\ tasks[2].pc = "done"
    /\ tasks[1].response.kind = "SendNotificationResponse"
    /\ tasks[2].response.kind = "SendNotificationResponse"
    /\ tasks[1].status = "failed"
    /\ tasks[2].status = "partial"
    /\ Len(store) = 2
    /\ store[1].key = StatusKey(TaskHandlerId(2))
    /\ store[2].key = StatusKey(TaskHandlerId(1))
    /\ events[1].message.notification_id = TaskHandlerId(1)
====
